---------------------------- MODULE Spec2Model ----------------------------
(* nginx-mgr: the site/stream mutation handlers of main.go, the store      *)
(* operations of SiteService / StreamService, SystemService.Reload and     *)
(* SystemService.Restore, as one state machine over the managed tree.      *)
EXTENDS Integers, Sequences, FiniteSets, TLC

(***************************************************************************)
(* Bounds of the model (not program constants).                            *)
(***************************************************************************)
MaxRequests == 2
MaxFaults == 1

Workers == {"w1", "w2"}
Sites == {"a"}
Streams == {"s"}
Units == Sites \cup Streams

(***************************************************************************)
(* File bodies.  A body is the text of an available copy, abstracted to    *)
(* the parameters a parse of it yields (cfg) and its textual form: "tmpl"  *)
(* is exactly what the template renders for cfg, "custom" is a hand-edited *)
(* text with the same parameters, "garbage" is text nginx rejects, "empty" *)
(* is a file truncated to length 0.  cfg "c0" is the zero configuration    *)
(* (port 0, empty target), which renders to a body nginx rejects.          *)
(***************************************************************************)
Cfgs == {"c0", "c1"}
Absent == [cfg |-> "none", form |-> "absent"]
Empty == [cfg |-> "c0", form |-> "empty"]
Garbage == [cfg |-> "c0", form |-> "garbage"]
Custom == [cfg |-> "c1", form |-> "custom"]
Render(c) == [cfg |-> c, form |-> "tmpl"]
Parse(b) == b.cfg
RawContents == {Custom, Garbage}
SiteConfigs == Cfgs \cup {"unsupported"}

BodyValid(b) == b.form = "empty" \/ (b.form \in {"tmpl", "custom"} /\ b.cfg # "c0")

UnitState(t, u) == [body |-> t.avail[u], link |-> t.link[u]]
SetUnit(t, u, st) == [t EXCEPT !.avail[u] = st.body, !.link[u] = st.link]

(* nginx -t over the tree: nginx.conf and every enabled unit must parse;   *)
(* a dangling activation link makes the include fail.                      *)
NginxTestOK(t) ==
    /\ t.conf = "ok"
    /\ \A u \in Units : t.link[u] => (t.avail[u] # Absent /\ BodyValid(t.avail[u]))

(***************************************************************************)
(* Store operations.  Each yields the set of possible outcomes             *)
(* [st, err, f]: the unit's state afterwards, whether the Go function      *)
(* returned an error, and how many injected I/O failures it used.          *)
(***************************************************************************)
Out(st, err, f) == [st |-> st, err |-> err, f |-> f]

(* os.Remove(enabledPath) with its error ignored *)
RemoveLink(st) ==
    IF st.link THEN {[st |-> [st EXCEPT !.link = FALSE], f |-> 0], [st |-> st, f |-> 1]}
    ELSE {[st |-> st, f |-> 0]}

(* os.Remove(enabledPath); return os.Symlink(availablePath, enabledPath) *)
Relink(st) ==
    UNION {
        IF r.st.link
        THEN {Out(r.st, TRUE, r.f)}
        ELSE {Out([r.st EXCEPT !.link = TRUE], FALSE, r.f), Out(r.st, TRUE, r.f + 1)}
        : r \in RemoveLink(st)}

(* os.WriteFile(path, content): written, or failed before or after the truncation *)
WriteFile(st, content) ==
    { Out([st EXCEPT !.body = content], FALSE, 0),
      Out(st, TRUE, 1),
      Out([st EXCEPT !.body = Empty], TRUE, 1) }

(* os.Create + tmpl.Execute, then the link *)
RenderAndLink(st, c) ==
    { Out(st, TRUE, 1), Out([st EXCEPT !.body = Empty], TRUE, 1) }
    \cup Relink([st EXCEPT !.body = Render(c)])

(* CreateSite that opens the available copy before it looks at the type *)
CreateSite_CreateFirst(st, c) ==
    IF c = "unsupported" THEN {Out([st EXCEPT !.body = Empty], TRUE, 0)}
    ELSE RenderAndLink(st, c)

CreateSite(st, c) ==
    IF c = "unsupported" THEN {Out(st, TRUE, 0)} ELSE RenderAndLink(st, c)

CreateStream(st, c) == RenderAndLink(st, c)

(* the removal with the link's error checked: a unit without a link cannot *)
(* be deleted                                                              *)
DeleteUnit_Strict(st) ==
    IF ~st.link THEN {Out(st, TRUE, 0)}
    ELSE UNION {
        IF r.st.body = Absent
        THEN {Out(r.st, TRUE, r.f)}
        ELSE {Out([r.st EXCEPT !.body = Absent], FALSE, r.f), Out(r.st, TRUE, r.f + 1)}
        : r \in RemoveLink(st)}

(* os.Remove(enabledPath) with its error ignored, then                     *)
(* return os.Remove(availablePath)                                         *)
DeleteUnit(st) ==
    UNION {
        IF r.st.body = Absent
        THEN {Out(r.st, TRUE, r.f)}
        ELSE {Out([r.st EXCEPT !.body = Absent], FALSE, r.f), Out(r.st, TRUE, r.f + 1)}
        : r \in RemoveLink(st)}

DeleteSite(st) == DeleteUnit(st)

DeleteStream(st) == DeleteUnit(st)

ReadRaw(st) == [err |-> st.body = Absent, content |-> st.body]

ReadSiteRaw(st) == ReadRaw(st)

ReadStreamRaw(st) == ReadRaw(st)

GetStream(st) == [err |-> st.body = Absent, cfg |-> Parse(st.body)]

WriteSiteRaw(st, content) == WriteFile(st, content)

RestoreSiteRaw(st, content) ==
    {Out(st, TRUE, 1)}
    \cup UNION {
        IF r.err THEN {r} ELSE {Out(q.st, q.err, q.f + r.f) : q \in Relink(r.st)}
        : r \in WriteFile(st, content)}

WriteStreamRaw(st, content) ==
    {Out(st, TRUE, 1)}
    \cup UNION {
        IF r.err \/ r.st.link THEN {r}
        ELSE {Out([r.st EXCEPT !.link = TRUE], FALSE, r.f), Out(r.st, TRUE, r.f + 1)}
        : r \in WriteFile(st, content)}


(***************************************************************************)
(* State.                                                                  *)
(*   tree    the managed tree: available copies, activation links,         *)
(*           nginx.conf, and one further file under /etc/nginx             *)
(*   svc     the nginx service: running, and whether the configuration it  *)
(*           last loaded was the one the loading call had just checked     *)
(*   wk      one record per request worker (each HTTP request runs on its  *)
(*           own goroutine): the handler, its position, its locals, the    *)
(*           commands it has issued and what it answered                   *)
(*   reqs    requests begun;  faults  injected I/O failures so far         *)
(*   serial  whether the client sends one request at a time                *)
(*   snapfiles  the safety snapshots under /tmp, by path: the tree each    *)
(*           holds, NoTree when the file does not exist                    *)
(*   sel, app, ufile, call, seen   the states of selectLatestBackup, of    *)
(*           applyExtractedArchive and of the store at system-call         *)
(*           granularity, each explored by a specification of its own      *)
(*   archives  the archives under /root/nginx_backups and the candidate    *)
(*           archives given to Restore;  auth  the AuthManager instances   *)
(*           and their token file;  enab  one unit with the target of its  *)
(*           activation link;  site  a site body given to GetSite;  task   *)
(*           the install task of ExecuteCommand;  usage  the traffic usage *)
(*           state (again each with its own specification)                 *)
(***************************************************************************)
VARIABLES tree, svc, wk, reqs, faults, serial, snapfiles, sel, app, ufile, call, seen,
          archives, auth, enab, site, task, usage

lastvars == <<site, task, usage>>

latevars == <<archives, auth, enab, site, task, usage>>

subvars == <<sel, app, ufile, call, seen, archives, auth, enab, site, task, usage>>

mainvars == <<tree, svc, wk, reqs, faults, serial, snapfiles>>

vars == <<tree, svc, wk, reqs, faults, serial, snapfiles, sel, app, ufile, call, seen,
          archives, auth, enab, site, task, usage>>

MutationOps == {"postSite", "putSite", "putSiteRaw", "delSite",
                "postStream", "putStream", "putStreamRaw", "delStream"}
CreateOps == {"postSite", "postStream"}
UpdateOps == {"putSite", "putSiteRaw", "putStream", "putStreamRaw"}
DeleteOps == {"delSite", "delStream"}
SiteOps == {"postSite", "putSite", "putSiteRaw", "delSite"}

NoUnit == [body |-> Absent, link |-> FALSE]
NoTree == [avail |-> [u \in Units |-> Absent], link |-> [u \in Units |-> FALSE],
           conf |-> "none", extra |-> "none"]

IdleWorker ==
    [op |-> "none", key |-> "-", pc |-> "idle", phase |-> "-",
     cfgIn |-> "-", rawIn |-> Absent,
     prevRaw |-> Absent, prevCfg |-> "-",
     pre |-> NoUnit, post |-> NoUnit,
     code |-> 0, rb |-> FALSE,
     commitFailed |-> FALSE, reversed |-> FALSE, revErr |-> FALSE,
     cmds |-> <<>>, checked |-> NoTree,
     arch |-> "-", snap |-> NoTree, snapTaken |-> FALSE, snapPath |-> "-",
     post2 |-> NoTree,
     failedAt |-> "-", rollbacks |-> 0, rbErr |-> FALSE, msgRb |-> FALSE,
     ranAtReturn |-> FALSE, crashedAt |-> "-"]

Cmd(c, ok) == [cmd |-> c, ok |-> ok]

(* /tmp/nginx_pre_restore_<unix seconds>.tar.gz: one path per second of    *)
(* the clock                                                               *)
SnapPaths == {"t1", "t2"}

(* The sub-models are at rest while requests are served. *)
Idle == [pc |-> "idle"]

LastIdle == site = Idle /\ task = Idle /\ usage = Idle

LateIdle == archives = Idle /\ auth = Idle /\ enab = Idle /\ LastIdle

SubIdle == sel = Idle /\ app = Idle /\ ufile = Idle /\ call = Idle /\ seen = Idle /\ LateIdle

(* The stores the service can be found with when a request arrives: each   *)
(* unit absent, or present with a rendered or a hand-edited body, enabled  *)
(* or (for a site the operator disabled) not.                              *)
InitSites ==
    { NoUnit,
      [body |-> Render("c1"), link |-> TRUE],
      [body |-> Render("c1"), link |-> FALSE] }

InitStreams ==
    { NoUnit,
      [body |-> Render("c1"), link |-> TRUE],
      [body |-> Custom, link |-> TRUE] }

InitBase ==
    /\ \E sa \in InitSites, st \in InitStreams :
         tree = [avail |-> [u \in Units |-> IF u \in Sites THEN sa.body ELSE st.body],
                 link |-> [u \in Units |-> IF u \in Sites THEN sa.link ELSE st.link],
                 conf |-> "ok", extra |-> "none"]
    /\ svc = [running |-> TRUE, fresh |-> TRUE]
    /\ wk = [w \in Workers |-> IdleWorker]
    /\ reqs = 0
    /\ snapfiles = [p \in SnapPaths |-> NoTree]
    /\ SubIdle

Init == InitBase /\ faults = 0 /\ serial = FALSE

InitConc == InitBase /\ faults = MaxFaults /\ serial = FALSE

InitSeq == InitBase /\ faults = MaxFaults /\ serial = TRUE

InitSeqFault == InitBase /\ faults = 0 /\ serial = TRUE

(***************************************************************************)
(* A request arrives.                                                      *)
(***************************************************************************)
KeysOf(op) == IF op \in SiteOps THEN Sites ELSE Streams

(* gin serves each request on a goroutine of its own; the goroutines are   *)
(* interchangeable, so a request is given to the first idle worker.        *)
FirstFree(w) == w = "w1" \/ wk["w1"].pc \notin {"idle", "done"}

Begin(w) ==
    /\ wk[w].pc \in {"idle", "done"}
    /\ reqs < MaxRequests
    /\ serial => \A v \in Workers : wk[v].pc \in {"idle", "done"}
    /\ FirstFree(w)
    /\ \E op \in MutationOps \cup {"sysReload"} :
         \E k \in (IF op = "sysReload" THEN {"-"} ELSE KeysOf(op)) :
           \E c \in (CASE op \in {"postSite", "putSite"} -> SiteConfigs
                       [] op \in {"postStream", "putStream"} -> Cfgs
                       [] OTHER -> {"-"}) :
             \E r \in (IF op \in {"putSiteRaw", "putStreamRaw"} THEN RawContents ELSE {Absent}) :
               wk' = [wk EXCEPT ![w] =
                        [IdleWorker EXCEPT
                           !.op = op, !.key = k, !.cfgIn = c, !.rawIn = r,
                           !.phase = "commit",
                           !.pre = IF op = "sysReload" THEN NoUnit ELSE UnitState(tree, k),
                           !.pc = CASE op \in CreateOps -> "mutate"
                                    [] op = "sysReload" -> "test"
                                    [] OTHER -> "capture"]]
    /\ reqs' = reqs + 1
    /\ UNCHANGED <<tree, svc, faults, serial, snapfiles, subvars>>

(* The handler answers: the state of its unit at that moment is recorded. *)
Answer(rec, t, code, rb) ==
    [rec EXCEPT !.pc = "done", !.code = code, !.rb = rb,
                !.post = IF rec.key \in Units THEN UnitState(t, rec.key) ELSE NoUnit]

(***************************************************************************)
(* Step 1: capture the previous state (update, raw edit, delete).          *)
(***************************************************************************)
Capture(w) ==
    LET rec == wk[w]
        st == UnitState(tree, rec.key)
    IN
    /\ rec.pc = "capture"
    /\ wk' = [wk EXCEPT ![w] =
          IF rec.op \in {"putStream", "delStream"}
          THEN IF GetStream(st).err
               THEN Answer(rec, tree, 404, FALSE)
               ELSE [rec EXCEPT !.pc = "mutate", !.prevCfg = GetStream(st).cfg, !.pre = st]
          ELSE IF ReadRaw(st).err
               THEN Answer(rec, tree, 404, FALSE)
               ELSE [rec EXCEPT !.pc = "mutate", !.prevRaw = ReadRaw(st).content, !.pre = st]]
    /\ UNCHANGED <<tree, svc, reqs, faults, serial, snapfiles, subvars>>

(***************************************************************************)
(* Step 2: the store mutation of each handler.                             *)
(***************************************************************************)
MutateOutcomes(rec, st) ==
    CASE rec.op \in {"postSite", "putSite"} -> CreateSite(st, rec.cfgIn)
      [] rec.op = "putSiteRaw" -> WriteSiteRaw(st, rec.rawIn)
      [] rec.op = "delSite" -> DeleteSite(st)
      [] rec.op \in {"postStream", "putStream"} -> CreateStream(st, rec.cfgIn)
      [] rec.op = "putStreamRaw" -> WriteStreamRaw(st, rec.rawIn)
      [] rec.op = "delStream" -> DeleteStream(st)

Mutate(w) ==
    LET rec == wk[w]
    IN
    /\ rec.pc = "mutate"
    /\ \E r \in MutateOutcomes(rec, UnitState(tree, rec.key)) :
         /\ faults + r.f <= MaxFaults
         /\ faults' = faults + r.f
         /\ tree' = SetUnit(tree, rec.key, r.st)
         /\ wk' = [wk EXCEPT ![w] =
               IF r.err THEN Answer(rec, tree', 500, FALSE)
               ELSE [rec EXCEPT !.pc = "test"]]
    /\ UNCHANGED <<svc, reqs, serial, snapfiles, subvars>>

(***************************************************************************)
(* SystemService.Reload: nginx -t, then systemctl reload nginx.            *)
(***************************************************************************)
SuccessCode(op) == IF op \in CreateOps THEN 201 ELSE 200

(* What the handler does once Reload has returned (err: whether it failed) *)
AfterReload(rec, t, err) ==
    IF rec.phase = "revert" THEN Answer(rec, t, 500, TRUE)
    ELSE IF ~err THEN Answer(rec, t, SuccessCode(rec.op), FALSE)
    ELSE IF rec.op = "sysReload" THEN Answer(rec, t, 500, FALSE)
    ELSE [rec EXCEPT !.pc = "rollback", !.commitFailed = TRUE]

(* Reload with the check's result ignored: the reload is issued even when  *)
(* nginx -t failed.                                                        *)
ReloadTest_Ungated(w) ==
    LET rec == wk[w]
        ok == NginxTestOK(tree)
    IN
    /\ rec.pc = "test"
    /\ wk' = [wk EXCEPT ![w] =
          [rec EXCEPT !.cmds = Append(@, Cmd("nginx -t", ok)), !.pc = "exec", !.checked = tree]]
    /\ UNCHANGED <<tree, svc, reqs, faults, serial, snapfiles, subvars>>

ReloadTest(w) ==
    LET rec == wk[w]
        ok == NginxTestOK(tree)
        logged == [rec EXCEPT !.cmds = Append(@, Cmd("nginx -t", ok))]
    IN
    /\ rec.pc = "test"
    /\ wk' = [wk EXCEPT ![w] =
          IF ok THEN [logged EXCEPT !.pc = "exec", !.checked = tree]
          ELSE AfterReload(logged, tree, TRUE)]
    /\ UNCHANGED <<tree, svc, reqs, faults, serial, snapfiles, subvars>>

ReloadExec(w) ==
    LET rec == wk[w]
    IN
    /\ rec.pc = "exec"
    /\ \E ok \in (IF svc.running THEN BOOLEAN ELSE {FALSE}) :
         /\ svc' = IF ok THEN [svc EXCEPT !.fresh = (tree = rec.checked)] ELSE svc
         /\ wk' = [wk EXCEPT ![w] =
               AfterReload([rec EXCEPT !.cmds = Append(@, Cmd("systemctl reload", ok)),
                                       !.checked = NoTree],
                           tree, ~ok)]
    /\ UNCHANGED <<tree, reqs, faults, serial, snapfiles, subvars>>

(***************************************************************************)
(* Step 4a: reverse the store mutation after a failed commit attempt.      *)
(***************************************************************************)
RollbackOutcomes(rec, st) ==
    CASE rec.op = "postSite" -> DeleteSite(st)
      [] rec.op \in {"putSite", "putSiteRaw"} -> WriteSiteRaw(st, rec.prevRaw)
      [] rec.op = "delSite" -> RestoreSiteRaw(st, rec.prevRaw)
      [] rec.op = "postStream" -> DeleteStream(st)
      [] rec.op \in {"putStream", "delStream"} -> CreateStream(st, rec.prevCfg)
      [] rec.op = "putStreamRaw" -> WriteStreamRaw(st, rec.prevRaw)

(* the reversal without the second Reload: the handler answers at once *)
Rollback_NoReload(w) ==
    LET rec == wk[w]
    IN
    /\ rec.pc = "rollback"
    /\ \E r \in RollbackOutcomes(rec, UnitState(tree, rec.key)) :
         /\ faults + r.f <= MaxFaults
         /\ faults' = faults + r.f
         /\ tree' = SetUnit(tree, rec.key, r.st)
         /\ wk' = [wk EXCEPT ![w] =
               Answer([rec EXCEPT !.reversed = TRUE, !.revErr = r.err], tree', 500, TRUE)]
    /\ UNCHANGED <<svc, reqs, serial, snapfiles, subvars>>

Rollback(w) ==
    LET rec == wk[w]
    IN
    /\ rec.pc = "rollback"
    /\ \E r \in RollbackOutcomes(rec, UnitState(tree, rec.key)) :
         /\ faults + r.f <= MaxFaults
         /\ faults' = faults + r.f
         /\ tree' = SetUnit(tree, rec.key, r.st)
         /\ wk' = [wk EXCEPT ![w] =
               LET done == [rec EXCEPT !.reversed = TRUE, !.revErr = r.err]
               IN IF rec.op = "delSite" /\ r.err
                  THEN Answer(done, tree', 500, TRUE)
                  ELSE [done EXCEPT !.pc = "test", !.phase = "revert"]]
    /\ UNCHANGED <<svc, reqs, serial, snapfiles, subvars>>

(***************************************************************************)
(* SystemService.Restore.  An archive holds some files of the tree; a file *)
(* it does not hold is Absent / "none" in its content.  Extraction and     *)
(* cp -a overlay: a file of the archive replaces the live one, every other *)
(* live file stays.                                                        *)
(***************************************************************************)
ArchiveNames == {"good", "badconf", "corrupt", "missing"}

ArchiveContent(a) ==
    CASE a = "good" -> [NoTree EXCEPT !.conf = "ok", !.extra = "x"]
      [] a = "badconf" -> [NoTree EXCEPT !.conf = "bad", !.extra = "x"]
      [] OTHER -> NoTree

Overlay(t, a) ==
    [avail |-> [u \in Units |-> IF a.avail[u] # Absent THEN a.avail[u] ELSE t.avail[u]],
     link |-> [u \in Units |-> a.link[u] \/ t.link[u]],
     conf |-> IF a.conf # "none" THEN a.conf ELSE t.conf,
     extra |-> IF a.extra # "none" THEN a.extra ELSE t.extra]

(* tar -czf of the live trees: the snapshot holds every file that exists *)
SnapshotOf(t) == t

(* restoreFromBackup without the os.Stat: the service is stopped and killed *)
(* before the missing snapshot makes the extraction fail                   *)
RestoreFromBackup_NoStat(t, snap, run) ==
    {[tree |-> t, running |-> FALSE, err |-> TRUE, f |-> 0, loaded |-> FALSE,
      cmds |-> <<Cmd("systemctl stop", TRUE), Cmd("pkill", TRUE), Cmd("tar -xzf /", FALSE)>>]}

(* restoreFromBackup(backupFile): os.Stat, stop, pkill, tar -xzf over /,    *)
(* start.  snap is what the file at the snapshot path holds, NoTree when   *)
(* the file is gone.  Outcomes [tree, running, err, f, cmds, loaded]: the  *)
(* snapshot file cannot be read (nothing is touched), the extraction       *)
(* fails, the start fails, or all succeed (nginx starts only on a          *)
(* configuration it accepts).                                              *)
RestoreFromBackup(t, snap, run) ==
    LET pre == <<Cmd("systemctl stop", TRUE), Cmd("pkill", TRUE)>>
        back == Overlay(t, snap)
    IN
    IF snap = NoTree
    THEN {[tree |-> t, running |-> run, err |-> TRUE, f |-> 0, loaded |-> FALSE,
           cmds |-> <<>>]}
    ELSE
    { [tree |-> t, running |-> run, err |-> TRUE, f |-> 1, loaded |-> FALSE,
       cmds |-> <<>>],
      [tree |-> t, running |-> FALSE, err |-> TRUE, f |-> 1, loaded |-> FALSE,
       cmds |-> Append(pre, Cmd("tar -xzf /", FALSE))],
      [tree |-> back, running |-> FALSE, err |-> TRUE, f |-> 0, loaded |-> FALSE,
       cmds |-> pre \o <<Cmd("tar -xzf /", TRUE), Cmd("systemctl start", FALSE)>>] }
    \cup
    IF NginxTestOK(back)
    THEN {[tree |-> back, running |-> TRUE, err |-> FALSE, f |-> 0, loaded |-> TRUE,
           cmds |-> pre \o <<Cmd("tar -xzf /", TRUE), Cmd("systemctl start", TRUE)>>]}
    ELSE {}

(* what the worker's snapshot path holds now *)
SnapFile(rec) == snapfiles[rec.snapPath]

(* a Restore that leaves its snapshot behind *)
Cleanup_Keep(rec) == snapfiles

(* defer os.Remove(currentBackup) *)
Cleanup(rec) == [snapfiles EXCEPT ![rec.snapPath] = NoTree]

(* time.Now().Unix() names the snapshot: a Restore that takes its snapshot *)
(* within the same second as one still in progress gets the same path.     *)
PathsFor(w) ==
    IF \E v \in Workers \ {w} : wk[v].op = "restore" /\ wk[v].snapTaken /\ wk[v].pc # "done"
    THEN SnapPaths
    ELSE {"t1"}

BeginRestore(w) ==
    /\ wk[w].pc \in {"idle", "done"}
    /\ reqs < MaxRequests
    /\ serial => \A v \in Workers : wk[v].pc \in {"idle", "done"}
    /\ FirstFree(w)
    /\ \E a \in ArchiveNames :
         wk' = [wk EXCEPT ![w] =
                  [IdleWorker EXCEPT !.op = "restore", !.arch = a, !.pc = "r_verify"]]
    /\ reqs' = reqs + 1
    /\ UNCHANGED <<tree, svc, faults, serial, snapfiles, subvars>>

(* Restore returns: the live tree and the service at that moment are       *)
(* recorded; the deferred os.Remove deletes the safety snapshot.           *)
RestoreReturn(rec, t, running, code, stage) ==
    [rec EXCEPT !.pc = "done", !.code = code, !.failedAt = stage,
                !.post2 = t, !.ranAtReturn = running]

(* The rollback branch of a stage: r is an outcome of restoreFromBackup;   *)
(* carry tells whether the stage puts the rollback error in its message.   *)
RolledBack(rec, r, stage, carry) ==
    RestoreReturn([rec EXCEPT !.cmds = @ \o r.cmds,
                              !.rollbacks = @ + 1,
                              !.rbErr = r.err,
                              !.msgRb = carry /\ r.err],
                  r.tree, r.running, 500, stage)

SvcAfter(rec, r) ==
    [running |-> r.running,
     fresh |-> IF r.loaded THEN r.tree = rec.checked ELSE svc.fresh]

(* Restore with the verification's result ignored: a corrupt archive goes  *)
(* on to the snapshot and the stop.                                        *)
RestoreVerify_Unchecked(w) ==
    LET rec == wk[w]
    IN
    /\ rec.pc = "r_verify"
    /\ wk' = [wk EXCEPT ![w] =
          IF rec.arch = "missing" THEN RestoreReturn(rec, tree, svc.running, 500, "resolve")
          ELSE [rec EXCEPT !.cmds = Append(@, Cmd("tar -tzf", rec.arch # "corrupt")),
                           !.pc = "r_snapshot"]]
    /\ UNCHANGED <<tree, svc, reqs, faults, serial, snapfiles, subvars>>

(* resolve the path, then tar -tzf *)
RestoreVerify(w) ==
    LET rec == wk[w]
    IN
    /\ rec.pc = "r_verify"
    /\ wk' = [wk EXCEPT ![w] =
          IF rec.arch = "missing" THEN RestoreReturn(rec, tree, svc.running, 500, "resolve")
          ELSE IF rec.arch = "corrupt"
          THEN RestoreReturn([rec EXCEPT !.cmds = Append(@, Cmd("tar -tzf", FALSE))],
                             tree, svc.running, 500, "verify")
          ELSE [rec EXCEPT !.cmds = Append(@, Cmd("tar -tzf", TRUE)), !.pc = "r_snapshot"]]
    /\ UNCHANGED <<tree, svc, reqs, faults, serial, snapfiles, subvars>>

(* Restore that goes on to the stop although tar -czf failed *)
RestoreSnapshot_Unchecked(w) ==
    LET rec == wk[w]
    IN
    /\ rec.pc = "r_snapshot"
    /\ faults < MaxFaults
    /\ faults' = faults + 1
    /\ wk' = [wk EXCEPT ![w] =
          [rec EXCEPT !.cmds = Append(@, Cmd("tar -czf", FALSE)), !.pc = "r_stop",
                      !.snapPath = "t1"]]
    /\ UNCHANGED <<tree, svc, snapfiles, reqs, serial, subvars>>

(* tar -czf currentBackup *)
RestoreSnapshot(w) ==
    LET rec == wk[w]
    IN
    /\ rec.pc = "r_snapshot"
    /\ \/ \E p \in PathsFor(w) :
            /\ snapfiles' = [snapfiles EXCEPT ![p] = SnapshotOf(tree)]
            /\ wk' = [wk EXCEPT ![w] =
                  [rec EXCEPT !.cmds = Append(@, Cmd("tar -czf", TRUE)), !.pc = "r_stop",
                              !.snap = SnapshotOf(tree), !.snapTaken = TRUE,
                              !.snapPath = p]]
            /\ UNCHANGED faults
       \/ /\ faults < MaxFaults
          /\ faults' = faults + 1
          /\ wk' = [wk EXCEPT ![w] =
                RestoreReturn([rec EXCEPT !.cmds = Append(@, Cmd("tar -czf", FALSE))],
                              tree, svc.running, 500, "snapshot")]
          /\ UNCHANGED snapfiles
    /\ UNCHANGED <<tree, svc, reqs, serial, subvars>>

(* systemctl stop nginx, and pkill -9 nginx when that fails *)
RestoreStop(w) ==
    LET rec == wk[w]
    IN
    /\ rec.pc = "r_stop"
    /\ \E ok \in BOOLEAN :
         wk' = [wk EXCEPT ![w] =
               [rec EXCEPT !.pc = "r_extract",
                           !.cmds = @ \o (IF ok THEN <<Cmd("systemctl stop", TRUE)>>
                                          ELSE <<Cmd("systemctl stop", FALSE), Cmd("pkill", TRUE)>>)]]
    /\ svc' = [svc EXCEPT !.running = FALSE]
    /\ UNCHANGED <<tree, reqs, faults, serial, snapfiles, subvars>>

(* os.MkdirTemp, then tar -xzf into the temporary directory *)
RestoreExtract(w) ==
    LET rec == wk[w]
    IN
    /\ rec.pc = "r_extract"
    /\ \/ /\ wk' = [wk EXCEPT ![w] =
                 [rec EXCEPT !.cmds = Append(@, Cmd("tar -xzf tmp", TRUE)), !.pc = "r_apply"]]
          /\ UNCHANGED <<tree, svc, faults, snapfiles>>
       \/ \E stage \in {"mktemp", "extract"} :
            \E r \in RestoreFromBackup(tree, SnapFile(rec), svc.running) :
              /\ faults + 1 + r.f <= MaxFaults
              /\ faults' = faults + 1 + r.f
              /\ tree' = r.tree
              /\ svc' = SvcAfter(rec, r)
              /\ snapfiles' = Cleanup(rec)
              /\ wk' = [wk EXCEPT ![w] =
                    RolledBack(IF stage = "extract"
                               THEN [rec EXCEPT !.cmds = Append(@, Cmd("tar -xzf tmp", FALSE))]
                               ELSE rec,
                               r, stage, stage = "extract")]
    /\ UNCHANGED <<reqs, serial, subvars>>

(* Restore without its validate stage: the applied tree is started as it is *)
RestoreApply_SkipValidate(w) ==
    LET rec == wk[w]
        applied == Overlay(tree, ArchiveContent(rec.arch))
    IN
    /\ rec.pc = "r_apply"
    /\ tree' = applied
    /\ wk' = [wk EXCEPT ![w] =
           [rec EXCEPT !.cmds = Append(@, Cmd("cp -a", TRUE)), !.pc = "r_start",
                       !.checked = applied]]
    /\ UNCHANGED <<svc, faults, snapfiles, reqs, serial, subvars>>

(* applyExtractedArchive: cp -a of the extracted subtrees over the live roots *)
RestoreApply(w) ==
    LET rec == wk[w]
        applied == Overlay(tree, ArchiveContent(rec.arch))
    IN
    /\ rec.pc = "r_apply"
    /\ \/ /\ tree' = applied
          /\ wk' = [wk EXCEPT ![w] =
                 [rec EXCEPT !.cmds = Append(@, Cmd("cp -a", TRUE)), !.pc = "r_validate"]]
          /\ UNCHANGED <<svc, faults, snapfiles>>
       \/ \E part \in {tree, applied} :
            \E r \in RestoreFromBackup(part, SnapFile(rec), svc.running) :
              /\ faults + 1 + r.f <= MaxFaults
              /\ faults' = faults + 1 + r.f
              /\ tree' = r.tree
              /\ svc' = SvcAfter(rec, r)
              /\ snapfiles' = Cleanup(rec)
              /\ wk' = [wk EXCEPT ![w] =
                    RolledBack([rec EXCEPT !.cmds = Append(@, Cmd("cp -a", FALSE))],
                               r, "apply", TRUE)]
    /\ UNCHANGED <<reqs, serial, subvars>>

(* nginx -t on the applied tree *)
RestoreValidate(w) ==
    LET rec == wk[w]
        ok == NginxTestOK(tree)
        logged == [rec EXCEPT !.cmds = Append(@, Cmd("nginx -t", ok))]
    IN
    /\ rec.pc = "r_validate"
    /\ \/ /\ ok
          /\ wk' = [wk EXCEPT ![w] = [logged EXCEPT !.pc = "r_start", !.checked = tree]]
          /\ UNCHANGED <<tree, svc, faults, snapfiles>>
       \/ /\ ~ok
          /\ \E r \in RestoreFromBackup(tree, SnapFile(rec), svc.running) :
               /\ faults + r.f <= MaxFaults
               /\ faults' = faults + r.f
               /\ tree' = r.tree
               /\ svc' = SvcAfter(logged, r)
               /\ snapfiles' = Cleanup(rec)
               /\ wk' = [wk EXCEPT ![w] = RolledBack(logged, r, "validate", TRUE)]
    /\ UNCHANGED <<reqs, serial, subvars>>

(* systemctl start nginx *)
RestoreStart(w) ==
    LET rec == wk[w]
    IN
    /\ rec.pc = "r_start"
    /\ snapfiles' = Cleanup(rec)
    /\ \/ /\ NginxTestOK(tree)
          /\ svc' = [running |-> TRUE, fresh |-> tree = rec.checked]
          /\ wk' = [wk EXCEPT ![w] =
                 RestoreReturn([rec EXCEPT !.cmds = Append(@, Cmd("systemctl start", TRUE))],
                               tree, TRUE, 200, "-")]
          /\ UNCHANGED <<tree, faults>>
       \/ \E r \in RestoreFromBackup(tree, SnapFile(rec), svc.running) :
            LET logged == [rec EXCEPT !.cmds = Append(@, Cmd("systemctl start", FALSE))]
            IN
            /\ faults + r.f <= MaxFaults
            /\ faults' = faults + r.f
            /\ tree' = r.tree
            /\ svc' = SvcAfter(logged, r)
            /\ wk' = [wk EXCEPT ![w] = RolledBack(logged, r, "start", TRUE)]
    /\ UNCHANGED <<reqs, serial, subvars>>

Next ==
    \E w \in Workers :
        \/ Begin(w)
        \/ Capture(w)
        \/ Mutate(w)
        \/ ReloadTest(w)
        \/ ReloadExec(w)
        \/ Rollback(w)
        \/ BeginRestore(w)
        \/ RestoreVerify(w)
        \/ RestoreSnapshot(w)
        \/ RestoreStop(w)
        \/ RestoreExtract(w)
        \/ RestoreApply(w)
        \/ RestoreValidate(w)
        \/ RestoreStart(w)

(***************************************************************************)
(* The managing process dies (kill, power loss, panic): every handler in   *)
(* progress stops where it is, no deferred call runs.  main() does nothing *)
(* at its next start about a request that was in progress, so the store,   *)
(* the live tree and the service stay as the crash left them.              *)
(***************************************************************************)
InFlight(w) == wk[w].pc \notin {"idle", "done", "crashed"}

Crash ==
    /\ \E w \in Workers : InFlight(w)
    /\ wk' = [w \in Workers |->
             IF InFlight(w)
             THEN [wk[w] EXCEPT
                     !.pc = "crashed", !.crashedAt = wk[w].pc,
                     !.post = IF wk[w].key \in Units THEN UnitState(tree, wk[w].key) ELSE NoUnit,
                     !.post2 = tree, !.ranAtReturn = svc.running]
             ELSE wk[w]]
    /\ UNCHANGED <<tree, svc, reqs, faults, serial, snapfiles, subvars>>

NextCrash == Next \/ Crash

Spec == Init /\ [][Next]_vars

SpecCrash == InitSeq /\ [][NextCrash]_vars

SpecConc == InitConc /\ [][Next]_vars

SpecSeq == InitSeq /\ [][Next]_vars

SpecSeqFault == InitSeqFault /\ [][Next]_vars

(***************************************************************************)
(* selectLatestBackup.  A directory is the sequence of its entries in the  *)
(* order os.ReadDir lists them (sorted by file name); an entry is a        *)
(* directory or not, has the .tar.gz suffix or not, has a modification     *)
(* time, and may be gone by the time entry.Info() asks for it.  An archive *)
(* is named by its position in the listing; 0 is the empty path.           *)
(***************************************************************************)
MaxEntries == 3
MaxTime == 3

DirEntries ==
    { e \in [isDir : BOOLEAN, tgz : BOOLEAN, mtime : 1..MaxTime, gone : BOOLEAN] :
        e.gone => (~e.isDir /\ e.tgz) }

Directories == UNION { [1..n -> DirEntries] : n \in 0..MaxEntries }

(* one iteration of the loop over the entries, with a selection that is    *)
(* made once and never replaced                                            *)
ScanStep_KeepFirst(acc, e, i) ==
    IF e.isDir \/ ~e.tgz \/ e.gone THEN acc
    ELSE IF acc.selected = 0 THEN [selected |-> i, latestTime |-> e.mtime]
    ELSE acc

(* one iteration of the loop over the entries, with !ModTime().Before in   *)
(* the place of ModTime().After                                            *)
ScanStep_NotBefore(acc, e, i) ==
    IF e.isDir \/ ~e.tgz \/ e.gone THEN acc
    ELSE IF acc.selected = 0 \/ e.mtime >= acc.latestTime
         THEN [selected |-> i, latestTime |-> e.mtime]
    ELSE acc

(* one iteration of the loop over the entries *)
ScanStep(acc, e, i) ==
    IF e.isDir THEN acc
    ELSE IF ~e.tgz THEN acc
    ELSE IF e.gone THEN acc
    ELSE IF acc.selected = 0 \/ e.mtime > acc.latestTime
         THEN [selected |-> i, latestTime |-> e.mtime]
    ELSE acc

RECURSIVE Scan(_, _, _)
Scan(entries, i, acc) ==
    IF i > Len(entries) THEN acc
    ELSE Scan(entries, i + 1, ScanStep(acc, entries[i], i))

selectLatestBackup(entries) ==
    LET r == Scan(entries, 1, [selected |-> 0, latestTime |-> 0])
    IN IF r.selected = 0 THEN [path |-> 0, err |-> "notfound"]
       ELSE [path |-> r.selected, err |-> "none"]

MainIdle ==
    /\ tree = NoTree
    /\ svc = [running |-> TRUE, fresh |-> TRUE]
    /\ wk = [w \in Workers |-> IdleWorker]
    /\ reqs = 0
    /\ faults = 0
    /\ serial = TRUE
    /\ snapfiles = [p \in SnapPaths |-> NoTree]

(* Restore is given a directory. *)
InitSelect ==
    /\ MainIdle
    /\ \E d \in Directories :
         sel = [entries |-> d, pc |-> "given", err |-> "none", selected |-> 0,
                cleanPath |-> 0, verified |-> 0]
    /\ app = Idle /\ ufile = Idle /\ call = Idle /\ seen = Idle /\ LateIdle

(* Restore: info.IsDir(), selectLatestBackup(cleanPath), cleanPath = selected *)
ResolveDirectory ==
    /\ sel.pc = "given"
    /\ \/ sel' = [sel EXCEPT !.pc = "returned", !.err = "readdir"]
       \/ LET r == selectLatestBackup(sel.entries)
          IN sel' = IF r.err # "none"
                    THEN [sel EXCEPT !.pc = "returned", !.err = r.err]
                    ELSE [sel EXCEPT !.pc = "resolved", !.selected = r.path,
                                     !.cleanPath = r.path]
    /\ UNCHANGED <<mainvars, app, ufile, call, seen, latevars>>

(* Restore: os.Stat(cleanPath), then tar -tzf cleanPath *)
VerifySelected ==
    /\ sel.pc = "resolved"
    /\ \/ sel' = [sel EXCEPT !.pc = "returned", !.err = "stat"]
       \/ sel' = [sel EXCEPT !.pc = "verified", !.verified = sel.cleanPath]
    /\ UNCHANGED <<mainvars, app, ufile, call, seen, latevars>>

NextSelect == ResolveDirectory \/ VerifySelected

SpecSelect == InitSelect /\ [][NextSelect]_vars

(***************************************************************************)
(* applyExtractedArchive at file granularity.  The extracted archive root  *)
(* may hold the directories etc/nginx ("etc"), var/www/html ("var") and    *)
(* nginx ("alt"), each with some files, and files of its own ("flat").     *)
(* The live configuration root and content root hold, per relative path,   *)
(* no file ("none"), the file that was there before ("old") or the         *)
(* archive's file ("new").                                                 *)
(***************************************************************************)
Paths == {"p", "q"}
Subtrees == {"etc", "var", "alt"}

Archives ==
    { a \in [dirs : SUBSET Subtrees, files : [Subtrees \cup {"flat"} -> SUBSET Paths]] :
        \A d \in Subtrees : d \notin a.dirs => a.files[d] = {} }

LiveRoots == [conf : [Paths -> {"none", "old"}], web : [Paths -> {"none", "old"}]]

dirExists(a, d) == d \in a.dirs

(* the task list with the whole archive root always appended *)
CopyTasks_AlwaysFlat(a) ==
    (IF dirExists(a, "etc") THEN <<[src |-> "etc", dest |-> "conf"]>> ELSE <<>>)
    \o (IF dirExists(a, "var") THEN <<[src |-> "var", dest |-> "web"]>> ELSE <<>>)
    \o <<[src |-> "flat", dest |-> "conf"]>>

(* the copy tasks applyExtractedArchive builds, in order *)
CopyTasks(a) ==
    LET etcTask == IF dirExists(a, "etc")
                   THEN <<[src |-> "etc", dest |-> "conf"]>> ELSE <<>>
        varTask == IF dirExists(a, "var")
                   THEN <<[src |-> "var", dest |-> "web"]>> ELSE <<>>
        altTask == IF dirExists(a, "alt") /\ ~dirExists(a, "etc")
                   THEN <<[src |-> "alt", dest |-> "conf"]>> ELSE <<>>
        tasks == etcTask \o varTask \o altTask
    IN IF Len(tasks) = 0 THEN <<[src |-> "flat", dest |-> "conf"]>> ELSE tasks

(* a copy that empties the destination first *)
CopyOver_Replace(root, files) == [p \in Paths |-> IF p \in files THEN "new" ELSE "none"]

(* cp -a src/. dest/ : the files of src replace those of dest by path *)
CopyOver(root, files) == [p \in Paths |-> IF p \in files THEN "new" ELSE root[p]]

(* tar -xzf of the safety snapshot over /: every file the snapshot holds   *)
(* is written back, no other file is touched                               *)
ExtractSnapshot(root, snapRoot) ==
    [p \in Paths |-> IF snapRoot[p] # "none" THEN snapRoot[p] ELSE root[p]]

InitApply ==
    /\ MainIdle
    /\ \E a \in Archives, l \in LiveRoots :
         app = [pc |-> "extracted", arch |-> a, live0 |-> l, live |-> l,
                tasks |-> <<>>, i |-> 0]
    /\ sel = Idle /\ ufile = Idle /\ call = Idle /\ seen = Idle /\ LateIdle

(* applyExtractedArchive: the dirExists tests build the task list *)
ApplyPlan ==
    /\ app.pc = "extracted"
    /\ app' = [app EXCEPT !.pc = "copy", !.tasks = CopyTasks(app.arch), !.i = 1]
    /\ UNCHANGED <<mainvars, sel, ufile, call, seen, latevars>>

(* one iteration of the loop over the tasks: os.MkdirAll, cp -a *)
ApplyCopy ==
    /\ app.pc = "copy"
    /\ LET t == app.tasks[app.i]
           srcFiles == app.arch.files[t.src]
       IN \/ app' = [app EXCEPT !.pc = "failed"]
          \/ \E part \in (SUBSET srcFiles) \ {srcFiles} :
               app' = [app EXCEPT !.pc = "failed",
                                  !.live[t.dest] = CopyOver(@, part)]
          \/ app' = [app EXCEPT !.live[t.dest] = CopyOver(@, srcFiles),
                                !.i = @ + 1,
                                !.pc = IF app.i = Len(app.tasks) THEN "applied" ELSE "copy"]
    /\ UNCHANGED <<mainvars, sel, ufile, call, seen, latevars>>

(* Restore after the apply: nginx -t and systemctl start succeed, or the   *)
(* safety snapshot is extracted over the live trees                        *)
ApplyFinish ==
    /\ app.pc \in {"applied", "failed"}
    /\ \/ /\ app.pc = "applied"
          /\ app' = [app EXCEPT !.pc = "restored"]
       \/ app' = [app EXCEPT !.pc = "rolledback",
                             !.live = [conf |-> ExtractSnapshot(app.live.conf, app.live0.conf),
                                       web |-> ExtractSnapshot(app.live.web, app.live0.web)]]
    /\ UNCHANGED <<mainvars, sel, ufile, call, seen, latevars>>

NextApply == ApplyPlan \/ ApplyCopy \/ ApplyFinish

SpecApply == InitApply /\ [][NextApply]_vars

(***************************************************************************)
(* The store at system-call granularity, for one unit key.  Each store     *)
(* function is the sequence of the system calls it makes; a handler is the *)
(* capture, the calls of its store mutation, the outcome of the commit     *)
(* attempt, and the calls of its reversal.  Two requests on the same key   *)
(* interleave call by call, and a reader may look at any moment.           *)
(*   ufile  the unit: body of the available copy, activation link          *)
(*   call   per request: the handler, the calls still to make, the         *)
(*          captured body, whether it is reversing                         *)
(*   seen   what a reader found                                            *)
(***************************************************************************)
Callers == {"r1", "r2"}

Step(k, c) == [k |-> k, c |-> c]

(* CreateSite / CreateStream: os.Create, tmpl.Execute, os.Remove(enabled), os.Symlink *)
CreateSteps(c) == <<Step("create", "-"), Step("execute", c), Step("unlink", "-"), Step("symlink", "-")>>

(* DeleteSite / DeleteStream: os.Remove(enabled), os.Remove(available) *)
DeleteSteps == <<Step("unlink", "-"), Step("remove", "-")>>

(* WriteSiteRaw: os.WriteFile opens with O_TRUNC, then writes *)
WriteSiteRawSteps(c) == <<Step("truncate", "-"), Step("write", c)>>

(* RestoreSiteRaw: os.WriteFile, os.Remove(enabled), os.Symlink *)
RestoreSiteRawSteps(c) ==
    <<Step("truncate", "-"), Step("write", c), Step("unlink", "-"), Step("symlink", "-")>>

(* WriteStreamRaw: os.WriteFile, then os.Lstat and os.Symlink when no link exists *)
WriteStreamRawSteps(c) == <<Step("truncate", "-"), Step("write", c), Step("ensurelink", "-")>>

(* The handler of op: capture, store mutation, commit attempt, reversal. *)
Program(op) ==
    CASE op = "postSite" -> CreateSteps("in") \o <<Step("decide", "-")>> \o DeleteSteps
      [] op = "postStream" -> CreateSteps("in") \o <<Step("decide", "-")>> \o DeleteSteps
      [] op = "putSite" ->
           <<Step("capture", "-")>> \o CreateSteps("in") \o <<Step("decide", "-")>>
           \o WriteSiteRawSteps("prev")
      [] op = "putStream" ->
           <<Step("capture", "-")>> \o CreateSteps("in") \o <<Step("decide", "-")>>
           \o CreateSteps("prevCfg")
      [] op = "putSiteRaw" ->
           <<Step("capture", "-")>> \o WriteSiteRawSteps("in") \o <<Step("decide", "-")>>
           \o WriteSiteRawSteps("prev")
      [] op = "putStreamRaw" ->
           <<Step("capture", "-")>> \o WriteStreamRawSteps("in") \o <<Step("decide", "-")>>
           \o WriteStreamRawSteps("prev")
      [] op = "delSite" ->
           <<Step("capture", "-")>> \o DeleteSteps \o <<Step("decide", "-")>>
           \o RestoreSiteRawSteps("prev")
      [] op = "delStream" ->
           <<Step("capture", "-")>> \o DeleteSteps \o <<Step("decide", "-")>>
           \o CreateSteps("prevCfg")

(* the body a step writes: the request's, the captured text, or the        *)
(* template rendered from the captured parameters                          *)
StepBody(rec, c) ==
    CASE c = "in" -> (IF rec.op \in {"putSiteRaw", "putStreamRaw"} THEN Garbage ELSE Render("c0"))
      [] c = "prev" -> rec.prev
      [] c = "prevCfg" -> Render(Parse(rec.prev))
      [] OTHER -> Absent

(* One system call on the unit: the outcomes [st, err, f]. *)
SysCall(st, k, body) ==
    CASE k = "create" -> {Out([st EXCEPT !.body = Empty], FALSE, 0), Out(st, TRUE, 1)}
      [] k = "truncate" -> {Out([st EXCEPT !.body = Empty], FALSE, 0), Out(st, TRUE, 1)}
      [] k = "execute" -> {Out([st EXCEPT !.body = body], FALSE, 0), Out(st, TRUE, 1)}
      [] k = "write" -> {Out([st EXCEPT !.body = body], FALSE, 0), Out(st, TRUE, 1)}
      [] k = "unlink" -> {Out(r.st, FALSE, r.f) : r \in RemoveLink(st)}
      [] k = "symlink" ->
           IF st.link THEN {Out(st, TRUE, 0)}
           ELSE {Out([st EXCEPT !.link = TRUE], FALSE, 0), Out(st, TRUE, 1)}
      [] k = "ensurelink" ->
           IF st.link THEN {Out(st, FALSE, 0)}
           ELSE {Out([st EXCEPT !.link = TRUE], FALSE, 0), Out(st, TRUE, 1)}
      [] k = "remove" ->
           IF st.body = Absent THEN {Out(st, TRUE, 0)}
           ELSE {Out([st EXCEPT !.body = Absent], FALSE, 0), Out(st, TRUE, 1)}

IdleCall == [op |-> "none", todo |-> <<>>, prev |-> Absent, phase |-> "-"]

InitStoreBase ==
    /\ tree = NoTree
    /\ svc = [running |-> TRUE, fresh |-> TRUE]
    /\ wk = [w \in Workers |-> IdleWorker]
    /\ snapfiles = [p \in SnapPaths |-> NoTree]
    /\ reqs = 0
    /\ ufile \in InitSites \cup InitStreams
    /\ call = [r \in Callers |-> IdleCall]
    /\ seen = Idle
    /\ sel = Idle /\ app = Idle /\ LateIdle

InitStore == InitStoreBase /\ faults = MaxFaults /\ serial = FALSE

InitStoreFault == InitStoreBase /\ faults = 0 /\ serial = TRUE

(* a request for the unit arrives *)
StoreBegin(r) ==
    /\ call[r].todo = <<>>
    /\ reqs < MaxRequests
    /\ serial => \A q \in Callers : call[q].todo = <<>>
    /\ r = "r1" \/ call["r1"].todo # <<>>
    /\ \E op \in MutationOps :
         call' = [call EXCEPT ![r] = [op |-> op, todo |-> Program(op), prev |-> Absent,
                                      phase |-> "commit"]]
    /\ reqs' = reqs + 1
    /\ UNCHANGED <<tree, svc, wk, faults, serial, snapfiles, sel, app, ufile, seen, latevars>>

(* ReadSiteRaw / GetStream before the mutation: NotFound ends the request *)
StoreCapture(r) ==
    LET rec == call[r]
    IN
    /\ rec.todo # <<>>
    /\ Head(rec.todo).k = "capture"
    /\ call' = [call EXCEPT ![r] =
          IF ufile.body = Absent THEN [rec EXCEPT !.todo = <<>>]
          ELSE [rec EXCEPT !.todo = Tail(@), !.prev = ufile.body]]
    /\ UNCHANGED <<mainvars, sel, app, ufile, seen, latevars>>

(* the next system call of the store function in progress; an error ends   *)
(* the function, and with it the handler's store work                      *)
StoreSysCall(r) ==
    LET rec == call[r]
    IN
    /\ rec.todo # <<>>
    /\ Head(rec.todo).k \notin {"capture", "decide"}
    /\ \E o \in SysCall(ufile, Head(rec.todo).k, StepBody(rec, Head(rec.todo).c)) :
         /\ faults + o.f <= MaxFaults
         /\ faults' = faults + o.f
         /\ ufile' = o.st
         /\ call' = [call EXCEPT ![r] =
               IF o.err THEN [rec EXCEPT !.todo = <<>>]
               ELSE [rec EXCEPT !.todo = Tail(@)]]
    /\ UNCHANGED <<tree, svc, wk, reqs, serial, snapfiles, sel, app, seen, latevars>>

(* Reload returned: the change is committed, or the reversal begins *)
StoreDecide(r) ==
    LET rec == call[r]
    IN
    /\ rec.todo # <<>>
    /\ Head(rec.todo).k = "decide"
    /\ \/ call' = [call EXCEPT ![r] = [rec EXCEPT !.todo = <<>>]]
       \/ call' = [call EXCEPT ![r] = [rec EXCEPT !.todo = Tail(@), !.phase = "rollback"]]
    /\ UNCHANGED <<mainvars, sel, app, ufile, seen, latevars>>

(* a reader opens the unit through its activation link *)
Observe ==
    /\ seen.pc = "idle"
    /\ seen' = [pc |-> "seen", link |-> ufile.link, body |-> ufile.body,
                writing |-> \E r \in Callers :
                                /\ call[r].todo # <<>>
                                /\ Head(call[r].todo).k \in {"execute", "write"}]
    /\ UNCHANGED <<mainvars, sel, app, ufile, call, latevars>>

NextStore ==
    \/ \E r \in Callers : StoreBegin(r) \/ StoreCapture(r) \/ StoreSysCall(r) \/ StoreDecide(r)
    \/ Observe

SpecStore == InitStore /\ [][NextStore]_vars

SpecStoreFault == InitStoreFault /\ [][NextStore]_vars


(***************************************************************************)
(* SystemService.Backup next to Restore: the archive files.  Backup writes *)
(* /root/nginx_backups/nginx_conf_<YYYYMMDD_HHMMSS>.tar.gz, one path per   *)
(* second of the clock; the archives given to Restore are files as well.   *)
(* A file is [exists, content].                                            *)
(***************************************************************************)
BackupPaths == {"b1", "b2"}

NoFile == [exists |-> FALSE, content |-> NoTree]

FileOf(t) == [exists |-> TRUE, content |-> t]

InitArchive ==
    /\ \E st \in InitStreams :
         tree = [avail |-> [u \in Units |-> IF u \in Sites THEN Render("c1") ELSE st.body],
                 link |-> [u \in Units |-> IF u \in Sites THEN TRUE ELSE st.link],
                 conf |-> "ok", extra |-> "none"]
    /\ svc = [running |-> TRUE, fresh |-> TRUE]
    /\ wk = [w \in Workers |-> IdleWorker]
    /\ reqs = 0
    /\ faults = 0
    /\ serial = FALSE
    /\ snapfiles = [p \in SnapPaths |-> NoTree]
    /\ archives = [p \in ArchiveNames \cup BackupPaths |->
                     IF p \in ArchiveNames \ {"missing"} THEN FileOf(ArchiveContent(p))
                     ELSE NoFile]
    /\ sel = Idle /\ app = Idle /\ ufile = Idle /\ call = Idle /\ seen = Idle
    /\ auth = Idle /\ enab = Idle /\ LastIdle

(* POST /system/backup: tar -czf path -C / etc/nginx var/www/html.  The    *)
(* archive is written, or tar fails and leaves nothing new or a partial    *)
(* file at the path.                                                       *)
Backup(w) ==
    LET rec == [IdleWorker EXCEPT !.op = "backup"]
    IN
    /\ wk[w].pc \in {"idle", "done"}
    /\ reqs < MaxRequests
    /\ FirstFree(w)
    /\ reqs' = reqs + 1
    /\ \E p \in BackupPaths :
         \/ /\ archives' = [archives EXCEPT ![p] = FileOf(SnapshotOf(tree))]
            /\ wk' = [wk EXCEPT ![w] =
                  [rec EXCEPT !.pc = "done", !.code = 200, !.arch = p,
                              !.cmds = <<Cmd("tar -czf", TRUE)>>]]
            /\ UNCHANGED faults
         \/ /\ faults < MaxFaults
            /\ faults' = faults + 1
            /\ archives' \in {archives, [archives EXCEPT ![p] = FileOf(NoTree)]}
            /\ wk' = [wk EXCEPT ![w] =
                  [rec EXCEPT !.pc = "done", !.code = 500, !.arch = p,
                              !.cmds = <<Cmd("tar -czf", FALSE)>>]]
    /\ UNCHANGED <<tree, svc, serial, snapfiles, sel, app, ufile, call, seen, auth, enab, lastvars>>

NextArchive ==
    \E w \in Workers :
        \/ Backup(w)
        \/ BeginRestore(w)
        \/ RestoreVerify(w)
        \/ RestoreSnapshot(w)
        \/ RestoreStop(w)
        \/ RestoreExtract(w)
        \/ RestoreApply(w)
        \/ RestoreValidate(w)
        \/ RestoreStart(w)

SpecArchive == InitArchive /\ [][NextArchive]_vars

(***************************************************************************)
(* AuthManager (site_svc.go): instances that share one token file.  main() *)
(* holds one instance, the terminal tooling another process's.  The file   *)
(* is missing, holds the JSON of an authState, or is what a write that     *)
(* failed after truncating it left.  A call runs under the instance's      *)
(* mutex and is one step; the clock counts in units of half the token's    *)
(* lifetime.                                                               *)
(***************************************************************************)
MaxClock == 3
tokenTTL == 2

Instances == {"mgr", "cli"}
Tokens == {"first", "second"}

(* hex(sha256(token)): distinct tokens have distinct hashes; no token      *)
(* hashes to the empty string                                              *)
hash(t) == <<"sha256", t>>
NoHash == <<>>

authState(h, e) == [tokenHash |-> h, expiresAt |-> e]
ZeroState == authState(NoHash, 0)

MissingFile == [kind |-> "missing"]
TornFile == [kind |-> "torn"]

(* json.MarshalIndent(state) and json.Unmarshal(content, &state) *)
Marshal(st) == [kind |-> "json", token_hash |-> st.tokenHash, expires_at |-> st.expiresAt]

Unmarshal(f) ==
    IF f.kind = "json"
    THEN [err |-> FALSE, st |-> authState(f.token_hash, f.expires_at)]
    ELSE [err |-> TRUE, st |-> ZeroState]

(* os.MkdirAll + os.WriteFile: written, failed with the file untouched, or *)
(* failed after the truncation.  Outcomes [file, err, f].                  *)
saveLocked(file, m) ==
    { [file |-> Marshal(m), err |-> FALSE, f |-> 0],
      [file |-> file, err |-> TRUE, f |-> 1],
      [file |-> TornFile, err |-> TRUE, f |-> 1] }

(* the instance's fields after refreshFromDisk, and whether it failed *)
refreshFromDisk(file, m) ==
    IF file.kind = "missing" THEN [err |-> FALSE, mem |-> ZeroState]
    ELSE IF Unmarshal(file).err THEN [err |-> TRUE, mem |-> m]
    ELSE [err |-> FALSE, mem |-> Unmarshal(file).st]

(* Login that takes any token: a token that does not match replaces the    *)
(* stored one                                                              *)
Login_Overwrite(file, m, t, now) ==
    LET r == refreshFromDisk(file, m)
        next == authState(hash(t), now + tokenTTL)
    IN
    IF r.err THEN {[file |-> file, mem |-> r.mem, res |-> "ioerr", f |-> 0]}
    ELSE {[file |-> s.file, mem |-> next, f |-> s.f,
           res |-> IF s.err THEN "ioerr"
                   ELSE IF r.mem.tokenHash = NoHash THEN "created" ELSE "ok"]
          : s \in saveLocked(file, next)}

(* Outcomes [file, mem, res, f] of Login(token) at time now *)
Login(file, m, t, now) ==
    LET r == refreshFromDisk(file, m)
        target == hash(t)
        next == authState(IF r.mem.tokenHash = NoHash THEN target ELSE r.mem.tokenHash,
                          now + tokenTTL)
    IN
    IF r.err THEN {[file |-> file, mem |-> r.mem, res |-> "ioerr", f |-> 0]}
    ELSE IF r.mem.tokenHash # NoHash /\ target # r.mem.tokenHash
    THEN {[file |-> file, mem |-> r.mem, res |-> "mismatch", f |-> 0]}
    ELSE {[file |-> s.file, mem |-> next, f |-> s.f,
           res |-> IF s.err THEN "ioerr"
                   ELSE IF r.mem.tokenHash = NoHash THEN "created" ELSE "ok"]
          : s \in saveLocked(file, next)}

(* Outcomes of ResetToken(token): the fields are set, then saved *)
ResetToken(file, m, t, now) ==
    LET next == authState(hash(t), now + tokenTTL)
    IN {[file |-> s.file, mem |-> next, f |-> s.f,
         res |-> IF s.err THEN "ioerr" ELSE "ok"]
        : s \in saveLocked(file, next)}

(* Validate with the refresh left out: the instance's fields as they are *)
Validate_NoRefresh(file, m, t, now) ==
    [mem |-> m,
     res |-> IF m.tokenHash = NoHash THEN "notset"
             ELSE IF now > m.expiresAt THEN "expired"
             ELSE IF hash(t) # m.tokenHash THEN "mismatch"
             ELSE "ok"]

(* Validate that compares the hashes before it looks at the expiry *)
Validate_MatchFirst(file, m, t, now) ==
    LET r == refreshFromDisk(file, m)
    IN
    [mem |-> r.mem,
     res |-> IF r.err THEN "ioerr"
             ELSE IF r.mem.tokenHash = NoHash THEN "notset"
             ELSE IF hash(t) # r.mem.tokenHash THEN "mismatch"
             ELSE IF now > r.mem.expiresAt THEN "expired"
             ELSE "ok"]

(* Validate(token): [mem, res] *)
Validate(file, m, t, now) ==
    LET r == refreshFromDisk(file, m)
    IN
    [mem |-> r.mem,
     res |-> IF r.err THEN "ioerr"
             ELSE IF r.mem.tokenHash = NoHash THEN "notset"
             ELSE IF now > r.mem.expiresAt THEN "expired"
             ELSE IF hash(t) # r.mem.tokenHash THEN "mismatch"
             ELSE "ok"]

NoCall == [op |-> "none", inst |-> "-", tok |-> "-", res |-> "-"]

(* auth: the file, the live instances and their fields, the clock, the    *)
(* last call and its result, the failures injected so far, and (to state   *)
(* properties) the token and expiry the last write put in the file, the    *)
(* tokens replaced so far, and whether the session had expired when the    *)
(* last Login or ResetToken was called.                                    *)
InitAuth ==
    /\ MainIdle
    /\ sel = Idle /\ app = Idle /\ ufile = Idle /\ call = Idle /\ seen = Idle
    /\ archives = Idle /\ enab = Idle /\ LastIdle
    /\ \E f \in {MissingFile, Marshal(authState(hash("first"), tokenTTL))} :
         auth = [file |-> f,
                 alive |-> {"mgr"},
                 mem |-> [i \in Instances |->
                            IF i = "mgr" THEN refreshFromDisk(f, ZeroState).mem ELSE ZeroState],
                 now |-> 0,
                 last |-> NoCall,
                 faults |-> 0,
                 cur |-> IF f = MissingFile THEN "none" ELSE "first",
                 curExp |-> IF f = MissingFile THEN 0 ELSE tokenTTL,
                 old |-> {},
                 lapsed |-> FALSE]

AuthFrame == UNCHANGED <<mainvars, sel, app, ufile, call, seen, archives, enab, lastvars>>

(* what a call that may write leaves in auth *)
AfterWrite(i, op, t, r) ==
    LET wrote == r.file # auth.file \/ r.res \in {"ok", "created"}
        tok == IF r.file.kind = "json" THEN t ELSE "none"
    IN
    [auth EXCEPT
       !.file = r.file,
       !.mem[i] = r.mem,
       !.last = [op |-> op, inst |-> i, tok |-> t, res |-> r.res],
       !.faults = @ + r.f,
       !.lapsed = auth.cur # "none" /\ auth.now > auth.curExp,
       !.cur = IF wrote THEN tok ELSE @,
       !.curExp = IF wrote /\ r.file.kind = "json" THEN r.file.expires_at ELSE @,
       !.old = IF wrote
               THEN (IF auth.cur = "none" THEN @ ELSE @ \cup {auth.cur}) \ {tok}
               ELSE @]

(* NewAuthManager(path): a further process opens the same file *)
AuthNew(i) ==
    /\ i \notin auth.alive
    /\ ~refreshFromDisk(auth.file, ZeroState).err
    /\ auth' = [auth EXCEPT !.alive = @ \cup {i},
                            !.mem[i] = refreshFromDisk(auth.file, ZeroState).mem,
                            !.last = [op |-> "New", inst |-> i, tok |-> "-", res |-> "ok"]]
    /\ AuthFrame

AuthLogin(i, t) ==
    /\ i \in auth.alive
    /\ \E r \in Login(auth.file, auth.mem[i], t, auth.now) :
         /\ auth.faults + r.f <= MaxFaults
         /\ auth' = AfterWrite(i, "Login", t, r)
    /\ AuthFrame

AuthReset(i, t) ==
    /\ i \in auth.alive
    /\ \E r \in ResetToken(auth.file, auth.mem[i], t, auth.now) :
         /\ auth.faults + r.f <= MaxFaults
         /\ auth' = AfterWrite(i, "ResetToken", t, r)
    /\ AuthFrame

AuthValidate(i, t) ==
    /\ i \in auth.alive
    /\ LET r == Validate(auth.file, auth.mem[i], t, auth.now)
       IN auth' = [auth EXCEPT !.mem[i] = r.mem,
                               !.last = [op |-> "Validate", inst |-> i, tok |-> t,
                                         res |-> r.res]]
    /\ AuthFrame

(* time passes *)
AuthTick ==
    /\ auth.now < MaxClock
    /\ auth' = [auth EXCEPT !.now = @ + 1, !.last = NoCall]
    /\ AuthFrame

NextAuth ==
    \/ \E i \in Instances : AuthNew(i)
    \/ \E i \in Instances, t \in Tokens : AuthLogin(i, t)
    \/ \E i \in Instances, t \in Tokens : AuthReset(i, t)
    \/ \E i \in Instances, t \in Tokens : AuthValidate(i, t)
    \/ AuthTick

SpecAuth == InitAuth /\ [][NextAuth]_vars

(***************************************************************************)
(* The enable step of the store operations, with what the entry at the     *)
(* enabled path is: nothing, a symlink to the unit's available copy, a     *)
(* symlink to some other path (a stale link), or a regular file.  The      *)
(* operation is applied MaxApply times in a row to one unit.               *)
(***************************************************************************)
MaxApply == 2

LinkKinds == {"none", "own", "stale", "file"}

(* os.Remove(enabledPath); return os.Symlink(availablePath, enabledPath) *)
RemoveThenSymlink(l) == [link |-> "own", err |-> FALSE]

(* WriteStreamRaw: os.Lstat(enabled); an entry that is no symlink is       *)
(* removed and linked, a symlink is left as it is, a missing entry linked  *)
LinkUnlessSymlink(l) ==
    IF l \in {"none", "file"} THEN [link |-> "own", err |-> FALSE]
    ELSE [link |-> l, err |-> FALSE]

EnableOps == {"CreateSite", "CreateStream", "RestoreSiteRaw", "WriteStreamRaw"}

EnableArgs(op) == IF op \in {"CreateSite", "CreateStream"} THEN {Render(c) : c \in Cfgs}
                  ELSE RawContents

(* the unit [body, link] and the error after op(arg) *)
WriteAndEnable(op, arg, u) ==
    LET e == IF op = "WriteStreamRaw" THEN LinkUnlessSymlink(u.link)
             ELSE RemoveThenSymlink(u.link)
    IN [unit |-> [body |-> arg, link |-> e.link], err |-> e.err]

InitEnable ==
    /\ MainIdle
    /\ sel = Idle /\ app = Idle /\ ufile = Idle /\ call = Idle /\ seen = Idle
    /\ archives = Idle /\ auth = Idle /\ LastIdle
    /\ \E b \in {Absent, Render("c1"), Custom}, l \in LinkKinds :
         enab = [pre |-> [body |-> b, link |-> l], unit |-> [body |-> b, link |-> l],
                 op |-> "-", arg |-> Absent, hist |-> <<>>, errs |-> <<>>]

EnableApply ==
    /\ Len(enab.hist) < MaxApply
    /\ \E op \in EnableOps : \E arg \in EnableArgs(op) :
         /\ enab.hist # <<>> => (op = enab.op /\ arg = enab.arg)
         /\ LET r == WriteAndEnable(op, arg, enab.unit)
            IN enab' = [enab EXCEPT !.op = op, !.arg = arg, !.unit = r.unit,
                                    !.hist = Append(@, r.unit), !.errs = Append(@, r.err)]
    /\ UNCHANGED <<mainvars, sel, app, ufile, call, seen, archives, auth, lastvars>>

NextEnable == EnableApply

SpecEnable == InitEnable /\ [][NextEnable]_vars

(***************************************************************************)
(* SiteService.GetSite: the kind of a site, from the text of its available *)
(* copy.  The text is a sequence of lines; a line is a comment or not, may *)
(* contain "site_type:" followed by a value (possibly nothing), and may    *)
(* contain one of the words the inference looks for.                       *)
(***************************************************************************)
MaxLines == 3

TagValues == {"lb", "proxy", "redirect", "static", "fancy", ""}
Words == {"proxy_pass", "upstream", "return 301", "root"}

TagLine(v) == [comment |-> TRUE, tagged |-> TRUE, value |-> v, word |-> "-"]
BareTag(v) == [comment |-> FALSE, tagged |-> TRUE, value |-> v, word |-> "-"]
Directive(wd) == [comment |-> FALSE, tagged |-> FALSE, value |-> "", word |-> wd]

SiteLines == {TagLine(v) : v \in TagValues} \cup {BareTag("lb")} \cup {Directive(wd) : wd \in Words}

SiteBodies == UNION {[1..n -> SiteLines] : n \in 0..MaxLines}

(* strings.Contains(content, word) *)
Contains(content, wd) == \E i \in 1..Len(content) : content[i].word = wd

(* extractSiteType that does not ask for the leading '#' *)
extractSiteType_AnyLine(content) ==
    LET tags == {i \in 1..Len(content) : content[i].tagged}
    IN IF tags = {} THEN ""
       ELSE content[CHOOSE i \in tags : \A j \in tags : i <= j].value

(* extractSiteType: the trimmed text after "site_type:" of the first       *)
(* comment line that contains it, "" when there is none                    *)
extractSiteType(content) ==
    LET tags == {i \in 1..Len(content) : content[i].comment /\ content[i].tagged}
    IN IF tags = {} THEN ""
       ELSE content[CHOOSE i \in tags : \A j \in tags : i <= j].value

(* config.Type as GetSite sets it *)
GetSite(content) ==
    LET t == extractSiteType(content)
    IN
    IF t # "" THEN (IF t \in {"lb", "proxy", "redirect"} THEN t ELSE "static")
    ELSE IF Contains(content, "proxy_pass")
         THEN (IF Contains(content, "upstream") THEN "lb" ELSE "proxy")
    ELSE IF Contains(content, "return 301") THEN "redirect"
    ELSE "static"

InitKind ==
    /\ MainIdle
    /\ sel = Idle /\ app = Idle /\ ufile = Idle /\ call = Idle /\ seen = Idle
    /\ archives = Idle /\ auth = Idle /\ enab = Idle
    /\ task = Idle /\ usage = Idle
    /\ \E b \in SiteBodies : site = [content |-> b, pc |-> "read", kind |-> "-"]

GetSiteReturn ==
    /\ site.pc = "read"
    /\ site' = [site EXCEPT !.pc = "returned", !.kind = GetSite(site.content)]
    /\ UNCHANGED <<mainvars, sel, app, ufile, call, seen, archives, auth, enab, task, usage>>

NextKind == GetSiteReturn

SpecKind == InitKind /\ [][NextKind]_vars

(***************************************************************************)
(* The install task: POST /install and GET /install/logs (main.go),        *)
(* NginxService.FullInstall (nginx_svc.go) and ExecuteCommand on a         *)
(* TaskStatus (executor/shell.go).  Every accepted POST starts a           *)
(* FullInstall goroutine; the goroutines and the handlers interleave at    *)
(* the steps below.  The handler's read of InstallStatus.IsRunning takes   *)
(* no lock: it sees the value before or after a concurrent write, which    *)
(* the interleaving of the steps covers.                                   *)
(***************************************************************************)
MaxInstalls == 2

InstallIds == 1 .. MaxInstalls

Pipes == {"stdout", "stderr"}

(* what the installer process prints on each pipe *)
PipeLines(p) == IF p = "stdout" THEN <<"o1", "o2">> ELSE <<"e1">>

(* cmd.Wait: nil, an *exec.ExitError, or another error *)
WaitResults == {"ok", "exit", "other"}

ProcessExitCode == 1

NewTaskStatus == [IsRunning |-> FALSE, ExitCode |-> 0, Logs |-> <<>>]

(* AddLog that appends from a stale copy of the slice: the line takes the  *)
(* place of the last one                                                   *)
AddLog_Overwrite(s, line) ==
    [s EXCEPT !.Logs = IF @ = <<>> THEN <<line>> ELSE [@ EXCEPT ![Len(@)] = line]]

(* TaskStatus.AddLog, under the status mutex *)
AddLog(s, line) == [s EXCEPT !.Logs = Append(@, line)]

(* the end of ExecuteCommand: IsRunning and ExitCode after cmd.Wait *)
AfterWait(s, res) ==
    [s EXCEPT !.IsRunning = FALSE,
              !.ExitCode = CASE res = "ok" -> 0
                             [] res = "exit" -> ProcessExitCode
                             [] OTHER -> -1]

NoInstall == [pc |-> "none", pos |-> [p \in Pipes |-> 0], res |-> "-"]

(* task: the TaskStatus objects (0 is the one NewNginxService made), the   *)
(* InstallStatus pointer, the FullInstall goroutines, whether              *)
(* isNginxInstalled holds, and the last answer of a handler.               *)
InitTask ==
    /\ MainIdle
    /\ sel = Idle /\ app = Idle /\ ufile = Idle /\ call = Idle /\ seen = Idle
    /\ archives = Idle /\ auth = Idle /\ enab = Idle
    /\ site = Idle /\ usage = Idle
    /\ \E b \in BOOLEAN :
         task = [status |-> [i \in 0 .. MaxInstalls |-> NewTaskStatus],
                 InstallStatus |-> 0,
                 inst |-> [i \in InstallIds |-> NoInstall],
                 installed |-> b,
                 last |-> [op |-> "none", code |-> 0, id |-> 0]]

TaskFrame == UNCHANGED <<mainvars, sel, app, ufile, call, seen, archives, auth, enab, site, usage>>

(* POST /install *)
PostInstall ==
    /\ task # Idle
    /\ IF task.status[task.InstallStatus].IsRunning
       THEN task' = [task EXCEPT !.last = [op |-> "POST", code |-> 409, id |-> 0]]
       ELSE \E i \in InstallIds :
              /\ task.inst[i].pc = "none"
              /\ \A j \in InstallIds : j < i => task.inst[j].pc # "none"
              /\ task' = [task EXCEPT !.inst[i].pc = "spawned",
                                      !.last = [op |-> "POST", code |-> 202, id |-> i]]
    /\ TaskFrame

(* GET /install/logs *)
GetInstallLogs ==
    /\ task # Idle
    /\ task' = [task EXCEPT !.last = [op |-> "GET", code |-> 200, id |-> task.InstallStatus]]
    /\ TaskFrame

(* FullInstall: a new TaskStatus replaces InstallStatus *)
FullInstallBegin(i) ==
    /\ task # Idle
    /\ task.inst[i].pc = "spawned"
    /\ task' = [task EXCEPT !.status[i] = AddLog(NewTaskStatus, "check"),
                            !.InstallStatus = i,
                            !.inst[i].pc = "check"]
    /\ TaskFrame

(* FullInstall: isNginxInstalled *)
FullInstallCheck(i) ==
    /\ task # Idle
    /\ task.inst[i].pc = "check"
    /\ task' = IF task.installed
               THEN [task EXCEPT !.status[i] = AddLog(@, "skip"),
                                 !.inst[i].pc = "done"]
               ELSE [task EXCEPT !.status[i] = AddLog(@, "download"),
                                 !.inst[i].pc = "start"]
    /\ TaskFrame

(* ExecuteCommand up to cmd.Start; on an error FullInstall logs it and returns *)
ExecuteCommandStart(i) ==
    /\ task # Idle
    /\ task.inst[i].pc = "start"
    /\ \/ task' = [task EXCEPT !.inst[i].pc = "started"]
       \/ task' = [task EXCEPT !.status[i] = AddLog(@, "error"),
                               !.inst[i].pc = "done",
                               !.inst[i].res = "nostart"]
    /\ TaskFrame

(* ExecuteCommand: IsRunning = true, the two log workers start *)
ExecuteCommandRunning(i) ==
    /\ task # Idle
    /\ task.inst[i].pc = "started"
    /\ task' = [task EXCEPT !.status[i].IsRunning = TRUE,
                            !.inst[i].pc = "running"]
    /\ TaskFrame

(* one scanner.Scan / AddLog of a log worker *)
logWorker(i, p) ==
    /\ task # Idle
    /\ task.inst[i].pc = "running"
    /\ task.inst[i].pos[p] < Len(PipeLines(p))
    /\ task' = [task EXCEPT
                  !.status[i] = AddLog(@, PipeLines(p)[task.inst[i].pos[p] + 1]),
                  !.inst[i].pos[p] = @ + 1]
    /\ TaskFrame

(* ExecuteCommand: wg.Wait, cmd.Wait, then IsRunning and ExitCode *)
ExecuteCommandWait(i) ==
    /\ task # Idle
    /\ task.inst[i].pc = "running"
    /\ \A p \in Pipes : task.inst[i].pos[p] = Len(PipeLines(p))
    /\ \E res \in WaitResults :
         task' = [task EXCEPT !.status[i] = AfterWait(@, res),
                              !.inst[i].pc = "waited",
                              !.inst[i].res = res,
                              !.installed = @ \/ res = "ok"]
    /\ TaskFrame

(* FullInstall after ExecuteCommand returned *)
FullInstallEnd(i) ==
    /\ task # Idle
    /\ task.inst[i].pc = "waited"
    /\ task' = [task EXCEPT
                  !.status[i] = AddLog(@, IF task.inst[i].res = "ok" THEN "complete" ELSE "error"),
                  !.inst[i].pc = "done"]
    /\ TaskFrame

NextTask ==
    \/ PostInstall
    \/ GetInstallLogs
    \/ \E i \in InstallIds :
         \/ FullInstallBegin(i)
         \/ FullInstallCheck(i)
         \/ ExecuteCommandStart(i)
         \/ ExecuteCommandRunning(i)
         \/ ExecuteCommandWait(i)
         \/ FullInstallEnd(i)
         \/ \E p \in Pipes : logWorker(i, p)

SpecTask == InitTask /\ [][NextTask]_vars

(***************************************************************************)
(* TrafficUsageManager.Snapshot (traffic_usage_manager.go).  The byte      *)
(* counters are unsigned integers of CounterBits bits, the clock counts    *)
(* whole days, a billing period is Period days and the tolerance of the    *)
(* stored reset time is ResetTolerance days.  Calls are serialised by the  *)
(* manager's mutex, so one call is one step.                               *)
(***************************************************************************)
CounterBits == 2

MaxNow == 4

Period == 3

ResetTolerance == 1

Modulus == 2 ^ CounterBits

Totals == 0 .. Modulus - 1

(* settings.ServerExpiryDate: empty, two dates, one that does not parse *)
ExpiryDates == {"", "d2", "d3", "bad"}

ZeroTime == 0

ExpiryDay(e) == IF e = "d2" THEN 2 ELSE 3

trafficUsageState(b, c, n, e) ==
    [BaselineBytes |-> b, CycleStart |-> c, NextReset |-> n, ExpiryDate |-> e]

NoStateFile == [kind |-> "missing"]

BadStateFile == [kind |-> "corrupt"]

StateFile(s) == [kind |-> "json", state |-> s]

(* the next occurrence of the expiry day after now, a period at a time *)
computeNextReset(now, expiry) ==
    IF expiry \in {"", "bad"} THEN ZeroTime
    ELSE LET k == CHOOSE j \in 0 .. MaxNow :
                    /\ ExpiryDay(expiry) + j * Period > now
                    /\ \A i \in 0 .. j - 1 : ExpiryDay(expiry) + i * Period <= now
         IN ExpiryDay(expiry) + k * Period

absDuration(v) == IF v < 0 THEN -v ELSE v

(* Snapshot without the reset on a decreased counter *)
CounterReset_Skip(s, totalBytes, now) == s

(* the counter went below the baseline: the baseline restarts at the total *)
CounterReset(s, totalBytes, now) ==
    IF totalBytes < s.BaselineBytes
    THEN [s EXCEPT !.BaselineBytes = totalBytes, !.CycleStart = now, !.NextReset = 0]
    ELSE s

(* the cycle bookkeeping after the counter check: [state, nextReset].  The *)
(* second computeNextReset is called with now plus one second, which on a  *)
(* clock of whole days gives the same day as now.                          *)
CycleUpdate(s, expiry, totalBytes, now) ==
    IF expiry = ""
    THEN [state |-> [s EXCEPT !.ExpiryDate = "", !.NextReset = 0], nextReset |-> ZeroTime]
    ELSE LET s1 == IF s.ExpiryDate # expiry
                   THEN [s EXCEPT !.BaselineBytes = totalBytes, !.CycleStart = now]
                   ELSE s
             nr == computeNextReset(now, expiry)
             s2 == IF nr = ZeroTime THEN [s1 EXCEPT !.NextReset = 0]
                   ELSE IF \/ s1.NextReset = 0
                           \/ now >= s1.NextReset
                           \/ absDuration(nr - s1.NextReset) > ResetTolerance
                   THEN [s1 EXCEPT !.BaselineBytes = totalBytes,
                                   !.CycleStart = now,
                                   !.NextReset = nr]
                   ELSE IF now >= s1.NextReset
                   THEN [s1 EXCEPT !.BaselineBytes = totalBytes,
                                   !.CycleStart = now,
                                   !.NextReset = computeNextReset(now, expiry)]
                   ELSE s1
             shown == IF nr = ZeroTime THEN ZeroTime ELSE s2.NextReset
         IN [state |-> [s2 EXCEPT !.ExpiryDate = expiry], nextReset |-> shown]

(* Snapshot(settings, totalBytes): the outcomes [file, err, used, f] *)
Snapshot(file, expiry, totalBytes, now) ==
    IF file.kind = "corrupt"
    THEN {[file |-> file, err |-> TRUE, used |-> 0, f |-> 0]}
    ELSE LET loaded == IF file.kind = "missing"
                       THEN trafficUsageState(totalBytes, now, 0, "")
                       ELSE file.state
             u == CycleUpdate(CounterReset(loaded, totalBytes, now), expiry, totalBytes, now)
             used == (totalBytes - u.state.BaselineBytes) % Modulus
         IN {[file |-> StateFile(u.state), err |-> FALSE, used |-> used, f |-> 0],
             [file |-> file, err |-> TRUE, used |-> 0, f |-> 1],
             [file |-> BadStateFile, err |-> TRUE, used |-> 0, f |-> 1]}

(* usage: the state file, the clock, the failures injected so far and the  *)
(* last call with its result and the baseline the file held before it      *)
(* (-1: no readable file)                                                  *)
InitUsage ==
    /\ MainIdle
    /\ sel = Idle /\ app = Idle /\ ufile = Idle /\ call = Idle /\ seen = Idle
    /\ archives = Idle /\ auth = Idle /\ enab = Idle
    /\ site = Idle /\ task = Idle
    /\ usage = [file |-> NoStateFile, now |-> 1, faults |-> 0,
                last |-> [op |-> "none", total |-> 0, err |-> FALSE, used |-> 0, was |-> -1]]

UsageFrame == UNCHANGED <<mainvars, sel, app, ufile, call, seen, archives, auth, enab, site, task>>

UsageSnapshot(expiry, totalBytes) ==
    /\ usage # Idle
    /\ \E r \in Snapshot(usage.file, expiry, totalBytes, usage.now) :
         /\ usage.faults + r.f <= MaxFaults
         /\ usage' = [usage EXCEPT
                        !.file = r.file,
                        !.faults = @ + r.f,
                        !.last = [op |-> "Snapshot", total |-> totalBytes,
                                  err |-> r.err, used |-> r.used,
                                  was |-> IF usage.file.kind = "json"
                                          THEN usage.file.state.BaselineBytes ELSE -1]]
    /\ UsageFrame

(* time passes *)
UsageTick ==
    /\ usage # Idle
    /\ usage.now < MaxNow
    /\ usage' = [usage EXCEPT !.now = @ + 1,
                              !.last = [op |-> "none", total |-> 0, err |-> FALSE, used |-> 0,
                                        was |-> -1]]
    /\ UsageFrame

NextUsage ==
    \/ \E e \in ExpiryDates : \E t \in Totals : UsageSnapshot(e, t)
    \/ UsageTick

SpecUsage == InitUsage /\ [][NextUsage]_vars

(***************************************************************************)
(* Claims.                                                                 *)
(***************************************************************************)
Returned(w) == wk[w].pc = "done"

FailedCommit(w, ops) == Returned(w) /\ wk[w].op \in ops /\ wk[w].commitFailed

(* C1: an update or raw edit whose validate or reload step failed leaves   *)
(* the unit's body, when the handler returns, equal to the body it had     *)
(* when the transaction captured it.                                       *)
C1_UpdateRestoresBody ==
    \A w \in Workers : FailedCommit(w, UpdateOps) => wk[w].post.body = wk[w].pre.body

(* C2: a create whose commit attempt failed leaves, when the handler       *)
(* returns, neither the available copy nor the activation link.            *)
C2_FailedCreateLeavesNothing ==
    \A w \in Workers : FailedCommit(w, CreateOps) => wk[w].post = NoUnit

(* C3: a delete whose commit attempt failed leaves, when the handler       *)
(* returns, the body and the enablement the unit had before the delete.    *)
C3_FailedDeleteRestoresUnit ==
    \A w \in Workers : FailedCommit(w, DeleteOps) => wk[w].post = wk[w].pre

(* C4: after a failed commit attempt the response says rolled_back: true   *)
(* only when the reversal of the store mutation succeeded.                  *)
C4_RolledBackOnlyIfReversed ==
    \A w \in Workers :
        (FailedCommit(w, MutationOps) /\ wk[w].rb) => (wk[w].reversed /\ ~wk[w].revErr)

(* C5: while one request is between its capture of the previous state (or  *)
(* its safety snapshot) and its answer, no other request writes the store  *)
(* or reloads or restarts the service.                                      *)
InTransaction(w) ==
    \/ wk[w].op \in UpdateOps \cup DeleteOps
       /\ wk[w].pc \in {"mutate", "test", "exec", "rollback"}
    \/ wk[w].op \in CreateOps /\ wk[w].pc \in {"test", "exec", "rollback"}
    \/ wk[w].op = "restore"
       /\ wk[w].pc \in {"r_stop", "r_extract", "r_apply", "r_validate", "r_start"}

Acts(v) == wk'[v] # wk[v] /\ (tree' # tree \/ svc' # svc \/ wk[v].pc = "exec")

C5_GlobalMutationLock ==
    [][\A w \in Workers : \A v \in Workers \ {w} : InTransaction(w) => ~Acts(v)]_vars

(* C6: in the commands of every request, a systemctl reload directly       *)
(* follows an nginx -t that exited 0; a failed nginx -t is followed by no  *)
(* reload, and the handler sees Reload's error.                             *)
ReloadIsGated(log) ==
    \A i \in 1..Len(log) :
        /\ log[i].cmd = "systemctl reload" => (i > 1 /\ log[i - 1] = Cmd("nginx -t", TRUE))
        /\ (log[i] = Cmd("nginx -t", FALSE) /\ i < Len(log)) => log[i + 1].cmd # "systemctl reload"

C6_ReloadOnlyAfterCheck ==
    \A w \in Workers :
        /\ ReloadIsGated(wk[w].cmds)
        /\ (wk[w].op \in MutationOps /\ Len(wk[w].cmds) > 0 /\ wk[w].cmds[1] = Cmd("nginx -t", FALSE))
              => wk[w].commitFailed
        /\ (wk[w].op = "sysReload" /\ wk[w].cmds = <<Cmd("nginx -t", FALSE)>>)
              => (Returned(w) /\ wk[w].code = 500)

C6_Witness ==
    \E w \in Workers :
        /\ wk[w].op \in MutationOps
        /\ wk[w].cmds = <<Cmd("nginx -t", FALSE), Cmd("nginx -t", TRUE), Cmd("systemctl reload", TRUE)>>

(* C7: whatever configuration the service has last loaded is exactly the   *)
(* tree that the loading call's health check had validated.                 *)
C7_LoadsWhatWasChecked == svc.fresh

(* C8: a Restore whose archive verification fails returns a failure having *)
(* run nothing but the verification: no snapshot, no stop or kill, no copy *)
(* or extraction over a live tree, no rollback.                             *)
C8_CorruptArchiveTouchesNothing ==
    \A w \in Workers :
        (wk[w].op = "restore" /\ wk[w].arch = "corrupt" /\ wk[w].pc # "r_verify") =>
            /\ Returned(w)
            /\ wk[w].code = 500
            /\ wk[w].failedAt = "verify"
            /\ wk[w].cmds = <<Cmd("tar -tzf", FALSE)>>
            /\ ~wk[w].snapTaken
            /\ wk[w].rollbacks = 0

C8_Witness ==
    \E w \in Workers : Returned(w) /\ wk[w].op = "restore" /\ wk[w].failedAt = "verify"

(* C9: a Restore that failed at Applying or Validating and whose rollback  *)
(* succeeded returns with the live tree identical to the tree its safety   *)
(* snapshot was taken of, and with the service running.                     *)
C9_RollbackRestoresTree ==
    \A w \in Workers :
        (Returned(w) /\ wk[w].op = "restore" /\ wk[w].failedAt \in {"apply", "validate"}
            /\ wk[w].rollbacks > 0 /\ ~wk[w].rbErr)
        => (wk[w].post2 = wk[w].snap /\ wk[w].ranAtReturn)

(* C10: a Restore whose rollback failed returns a failure whose message    *)
(* carries the rollback error beside the original one.                      *)
C10_FailedRollbackIsReported ==
    \A w \in Workers :
        (Returned(w) /\ wk[w].op = "restore" /\ wk[w].rollbacks > 0 /\ wk[w].rbErr)
        => (wk[w].code = 500 /\ wk[w].msgRb)

(* C11: a Restore that failed at Extracting, Applying, Validating or       *)
(* Starting returns a failure having run the rollback sequence exactly     *)
(* once: stop and kill, then the extraction of the safety snapshot over    *)
(* the live trees, then (the extraction done) the start of the service.    *)
RollbackStages == {"extract", "apply", "validate", "start"}

Positions(log, c) == {i \in 1..Len(log) : log[i].cmd = c}

RollbackRanOnce(log) ==
    /\ Cardinality(Positions(log, "tar -xzf /")) = 1
    /\ \A i \in Positions(log, "tar -xzf /") :
         /\ i > 2
         /\ log[i - 2].cmd = "systemctl stop"
         /\ log[i - 1].cmd = "pkill"
         /\ log[i].ok => (i + 1 = Len(log) /\ log[i + 1].cmd = "systemctl start")

C11_RollbackRunsOnce ==
    \A w \in Workers :
        (Returned(w) /\ wk[w].op = "restore" /\ wk[w].failedAt \in RollbackStages)
        => (wk[w].code = 500 /\ wk[w].rollbacks = 1 /\ RollbackRanOnce(wk[w].cmds))

(* C12: when the managing process crashes in the middle of a mutation      *)
(* transaction or of a Restore, the unit (the live tree) is left exactly   *)
(* as it was before the request.  (A request still in progress has not     *)
(* had its reload or start succeed, so its change is never yet live.)      *)
C12_CrashLeavesNoPartialChange ==
    \A w \in Workers :
        wk[w].pc = "crashed" =>
            /\ wk[w].op \in MutationOps => wk[w].post = wk[w].pre
            /\ (wk[w].op = "restore" /\ wk[w].snapTaken) =>
                  (wk[w].post2 = wk[w].snap /\ wk[w].ranAtReturn)

(* C13: given a directory, the archive selected is an entry that is not a *)
(* directory, has the .tar.gz suffix and has the newest modification time  *)
(* of all such entries; without such an entry the result is the not-found  *)
(* error; Restore goes on with exactly the selected archive.               *)
Recognized(d) == {i \in 1..Len(d) : ~d[i].isDir /\ d[i].tgz /\ ~d[i].gone}

C13_SelectsNewestArchive ==
    (sel.pc \in {"resolved", "verified", "returned"} /\ sel.err # "readdir") =>
        LET R == Recognized(sel.entries)
        IN IF R = {}
           THEN sel.err = "notfound" /\ sel.pc = "returned" /\ sel.selected = 0
           ELSE /\ sel.selected \in R
                /\ \A j \in R : sel.entries[sel.selected].mtime >= sel.entries[j].mtime
                /\ sel.cleanPath = sel.selected
                /\ sel.pc = "verified" => sel.verified = sel.selected

C13_Witness ==
    /\ sel.pc = "verified"
    /\ Len(sel.entries) = 3
    /\ Recognized(sel.entries) = {1, 2, 3}
    /\ sel.entries[2].mtime > sel.entries[3].mtime
    /\ sel.entries[3].mtime > sel.entries[1].mtime
    /\ sel.verified = 2

(* C14 as stated: of several recognized archives that share the newest     *)
(* modification time, the one listed last is selected.                     *)
C14_TieTakesLast ==
    (sel.pc \in {"resolved", "verified"}) =>
        \A j \in Recognized(sel.entries) :
            sel.entries[j].mtime = sel.entries[sel.selected].mtime => j <= sel.selected

(* C14, amended: of several recognized archives that share the newest      *)
(* modification time, the one listed first is selected.                    *)
C14_TieTakesFirst ==
    (sel.pc \in {"resolved", "verified"}) =>
        \A j \in Recognized(sel.entries) :
            sel.entries[j].mtime = sel.entries[sel.selected].mtime => j >= sel.selected

C14_Witness ==
    /\ sel.pc = "resolved"
    /\ Recognized(sel.entries) = {1, 2, 3}
    /\ sel.entries[1].mtime < sel.entries[2].mtime
    /\ sel.entries[2].mtime = sel.entries[3].mtime
    /\ sel.selected = 2

(* C15 as stated: etc/nginx is copied into the configuration root iff it  *)
(* is present, var/www/html into the content root iff it is present, and   *)
(* the whole archive root into the configuration root iff neither of the   *)
(* two is present.                                                         *)
HasTask(src, dest) == \E k \in 1..Len(app.tasks) : app.tasks[k] = [src |-> src, dest |-> dest]

Planned == app.pc \in {"copy", "applied", "failed", "restored", "rolledback"}

C15_ApplyPolicyAsStated ==
    Planned =>
        /\ HasTask("etc", "conf") <=> dirExists(app.arch, "etc")
        /\ HasTask("var", "web") <=> dirExists(app.arch, "var")
        /\ HasTask("flat", "conf") <=>
              (~dirExists(app.arch, "etc") /\ ~dirExists(app.arch, "var"))

(* C15, amended: etc/nginx is copied into the configuration root iff it is *)
(* present; var/www/html into the content root iff it is present; a        *)
(* top-level nginx directory into the configuration root iff it is present *)
(* and etc/nginx is not; the whole archive root into the configuration     *)
(* root iff none of the three is present.  Nothing else is copied: the     *)
(* content root is written only from var/www/html, and the configuration   *)
(* root is not written when the archive holds var/www/html alone.          *)
C15_ApplyPolicy ==
    Planned =>
        /\ HasTask("etc", "conf") <=> dirExists(app.arch, "etc")
        /\ HasTask("var", "web") <=> dirExists(app.arch, "var")
        /\ HasTask("alt", "conf") <=>
              (dirExists(app.arch, "alt") /\ ~dirExists(app.arch, "etc"))
        /\ HasTask("flat", "conf") <=> app.arch.dirs = {}
        /\ \A k \in 1..Len(app.tasks) :
              app.tasks[k] \in {[src |-> "etc", dest |-> "conf"], [src |-> "var", dest |-> "web"],
                                [src |-> "alt", dest |-> "conf"], [src |-> "flat", dest |-> "conf"]}
        /\ (app.pc \in {"copy", "applied", "failed", "restored"}
              /\ ~dirExists(app.arch, "var")) => app.live.web = app.live0.web
        /\ (app.pc \in {"copy", "applied", "failed", "restored"}
              /\ app.arch.dirs = {"var"}) => app.live.conf = app.live0.conf

C15_Witness ==
    /\ app.pc = "applied"
    /\ app.arch.dirs = {"var", "alt"}
    /\ app.arch.files["alt"] = {"p"}
    /\ app.arch.files["var"] = {"q"}
    /\ app.arch.files["flat"] # {}
    /\ app.live0.conf = [p \in Paths |-> "old"]
    /\ app.live.conf["p"] = "new"
    /\ app.live.web["q"] = "new"

(* C16: after a successful Restore every path of a live root that the     *)
(* copied archive subtree does not hold has the file it had before, and    *)
(* every path the copied subtree holds has the archive's file.             *)
CopiedFiles(dest) ==
    UNION { app.arch.files[app.tasks[k].src] :
              k \in {j \in 1..Len(app.tasks) : app.tasks[j].dest = dest} }

C16_RestoreOverlays ==
    app.pc = "restored" =>
        \A dest \in {"conf", "web"} : \A p \in Paths :
            /\ p \notin CopiedFiles(dest) => app.live[dest][p] = app.live0[dest][p]
            /\ p \in CopiedFiles(dest) => app.live[dest][p] = "new"

C16_Witness ==
    /\ app.pc = "restored"
    /\ app.arch.dirs = {"etc", "var"}
    /\ app.arch.files["etc"] = {"p"}
    /\ app.arch.files["var"] = {"p"}
    /\ app.live0.conf = [p \in Paths |-> "old"]
    /\ app.live0.web = [p \in Paths |-> IF p = "q" THEN "old" ELSE "none"]
    /\ app.live.conf = [p \in Paths |-> IF p = "p" THEN "new" ELSE "old"]
    /\ app.live.web = [p \in Paths |-> IF p = "p" THEN "new" ELSE "old"]

(* C17: in every state of the store, also between two system calls of an  *)
(* operation and after a failed step, an activation link exists only if    *)
(* the available copy exists.                                              *)
C17_NoDanglingLink == ufile.link => ufile.body # Absent

(* C18: no reader finds the unit enabled while its available body is       *)
(* missing or still being written.                                         *)
C18_EnableIsAtomic ==
    seen.pc = "seen" =>
        ~(seen.link /\ (seen.body = Absent \/ (seen.body = Empty /\ seen.writing)))

(* C19: a create whose commit attempt failed leaves the unit as it was    *)
(* when the request arrived: absent if it did not exist, and otherwise     *)
(* present with the body and the enablement it had.                        *)
C19_CreateRestoresExisting ==
    \A w \in Workers : FailedCommit(w, CreateOps) => wk[w].post = wk[w].pre

(* C20: when the store mutation itself returned an error (no health check  *)
(* was run), the handler answers its error with the unit's body and        *)
(* enablement equal to what they were before the transaction.              *)
MutationFailed(w) ==
    /\ Returned(w)
    /\ wk[w].op \in MutationOps
    /\ wk[w].code = 500
    /\ ~wk[w].commitFailed
    /\ wk[w].cmds = <<>>

C20_FailedMutationIsReversed ==
    \A w \in Workers : MutationFailed(w) => wk[w].post = wk[w].pre

(***************************************************************************)
(* What a mutation request proposes for its unit, and the command log of   *)
(* one Reload in which the check and the reload both succeeded.            *)
(***************************************************************************)
Proposed(rec) ==
    CASE rec.op \in DeleteOps -> NoUnit
      [] rec.op \in {"putSiteRaw", "putStreamRaw"} -> [body |-> rec.rawIn, link |-> TRUE]
      [] OTHER -> [body |-> Render(rec.cfgIn), link |-> TRUE]

OneGoodReload == <<Cmd("nginx -t", TRUE), Cmd("systemctl reload", TRUE)>>

Succeeded(w) == Returned(w) /\ wk[w].op \in MutationOps /\ wk[w].code = SuccessCode(wk[w].op)

(* C21: a mutation request answers success exactly when its store mutation *)
(* succeeded and nginx -t and the reload each ran once and both succeeded; *)
(* the store then holds the proposed body with its activation link (for a  *)
(* delete: neither), and nothing was rolled back or reloaded again.        *)
C21_SuccessMeansCommitted ==
    \A w \in Workers :
        (Returned(w) /\ wk[w].op \in MutationOps) =>
            /\ Succeeded(w) <=> (wk[w].cmds = OneGoodReload /\ ~wk[w].reversed)
            /\ Succeeded(w) => wk[w].post = Proposed(wk[w])

(* the same, raw edits of sites left aside *)
C21_ExceptSiteRaw ==
    \A w \in Workers :
        (Returned(w) /\ wk[w].op \in MutationOps \ {"putSiteRaw"}) =>
            /\ Succeeded(w) <=> (wk[w].cmds = OneGoodReload /\ ~wk[w].reversed)
            /\ Succeeded(w) => wk[w].post = Proposed(wk[w])

RawOps == {"putSiteRaw", "putStreamRaw"}

(* C22: after a committed raw edit of a site or of a stream the unit holds *)
(* the proposed body and is enabled, whether it was enabled before or not. *)
C22_RawEditEnables ==
    \A w \in Workers :
        (Succeeded(w) /\ wk[w].op \in RawOps) =>
            (wk[w].post.body = wk[w].rawIn /\ wk[w].post.link)

(* the body alone: a committed raw edit leaves the proposed body *)
C22_RawEditWrites ==
    \A w \in Workers :
        (Succeeded(w) /\ wk[w].op \in RawOps) => wk[w].post.body = wk[w].rawIn

(* C23: deleting a unit that exists but has no activation link succeeds:   *)
(* the link removal that fails is ignored, the available copy is removed   *)
(* (unless that removal itself fails), and once nginx -t and the reload    *)
(* have passed the delete request answers success.                         *)
C23_DeleteWithoutLink ==
    /\ [][\A w \in Workers :
            (/\ wk[w].pc = "mutate"
             /\ wk[w].op \in DeleteOps
             /\ UnitState(tree, wk[w].key).body # Absent
             /\ ~UnitState(tree, wk[w].key).link
             /\ wk'[w] # wk[w]
             /\ faults' = faults)
            => (wk'[w].pc = "test" /\ UnitState(tree', wk[w].key) = NoUnit)]_vars
    /\ [](\A w \in Workers :
            (/\ Returned(w)
             /\ wk[w].op \in DeleteOps
             /\ wk[w].pre.body # Absent
             /\ ~wk[w].pre.link
             /\ wk[w].cmds = OneGoodReload)
            => (wk[w].code = 200 /\ wk[w].post = NoUnit))

C23_Witness ==
    \E w \in Workers :
        /\ Returned(w)
        /\ wk[w].op = "delSite"
        /\ wk[w].pre.body # Absent
        /\ ~wk[w].pre.link
        /\ wk[w].code = 200
        /\ wk[w].post = NoUnit

(* the first half of C24: a capture that finds no available copy answers   *)
(* 404 at once, with the store as it was and no command issued             *)
C24_NotFoundTouchesNothing ==
    [][\A w \in Workers :
         (/\ wk[w].pc = "capture"
          /\ UnitState(tree, wk[w].key).body = Absent
          /\ wk'[w] # wk[w])
         => (/\ wk'[w].pc = "done"
             /\ wk'[w].code = 404
             /\ wk'[w].cmds = <<>>
             /\ tree' = tree
             /\ svc' = svc)]_vars

(* C24: an update, raw-edit or delete request for a key that has no        *)
(* available copy answers NotFound without creating, writing or removing   *)
(* anything and without nginx -t or a reload; and no step of an update     *)
(* request makes a unit exist that did not exist before the step.          *)
C24_UpdateNeverCreates ==
    /\ C24_NotFoundTouchesNothing
    /\ [][\A w \in Workers :
            (/\ wk[w].op \in UpdateOps
             /\ wk'[w] # wk[w]
             /\ UnitState(tree, wk[w].key).body = Absent)
            => UnitState(tree', wk[w].key).body = Absent]_vars

(* C25: a Restore that created its safety snapshot has removed the file at *)
(* the snapshot's path by the step in which it returns, whatever the       *)
(* outcome; no step of a Restore deletes or changes the archive it was     *)
(* given; and no step of a Backup or of a Restore deletes an archive that  *)
(* a Backup has written.                                                   *)
C25_SnapshotRemovedArchivesKept ==
    [][/\ \A w \in Workers :
            (wk[w].op = "restore" /\ wk[w].snapTaken /\ ~Returned(w) /\ wk'[w].pc = "done")
            => snapfiles'[wk[w].snapPath] = NoTree
       /\ \A w \in Workers :
            (wk[w].op = "restore" /\ ~Returned(w) /\ wk'[w] # wk[w])
            => archives'[wk[w].arch] = archives[wk[w].arch]
       /\ \A p \in BackupPaths : archives[p].exists => archives'[p].exists]_vars

C25_Witness ==
    \E w, v \in Workers :
        /\ Returned(w) /\ wk[w].op = "restore" /\ wk[w].snapTaken /\ wk[w].code = 500
        /\ snapfiles[wk[w].snapPath] = NoTree
        /\ archives[wk[w].arch].exists
        /\ Returned(v) /\ wk[v].op = "backup" /\ wk[v].code = 200
        /\ archives[wk[v].arch].exists

HoldsSnapshot(w) == wk[w].op = "restore" /\ wk[w].snapTaken /\ ~Returned(w)

(* C26: a safety snapshot belongs to one Restore: two Restores that are in *)
(* progress at the same time and have each taken their snapshot hold them  *)
(* at distinct paths, so neither extracts or deletes the other's.          *)
C26_SnapshotNotShared ==
    \A w, v \in Workers :
        (w # v /\ HoldsSnapshot(w) /\ HoldsSnapshot(v)) => wk[w].snapPath # wk[v].snapPath

(* C27: Validate goes by the token state in the shared file: after any     *)
(* Login and ResetToken calls through any instances, a Validate call on    *)
(* any instance accepts a token exactly when it is the token the last      *)
(* write put in the file and that write's expiry has not passed, and it    *)
(* rejects every token that was valid before and has been replaced.        *)
C27_ValidateFollowsFile ==
    (auth # Idle /\ auth.last.op = "Validate") =>
        /\ auth.last.res = "ok" <=> (auth.last.tok = auth.cur /\ auth.now <= auth.curExp)
        /\ auth.last.tok \in auth.old => auth.last.res # "ok"

(* the replaced token is refused by the instance that did not replace it, *)
(* the new one accepted                                                    *)
C27_Witness ==
    /\ auth # Idle
    /\ auth.last = [op |-> "Validate", inst |-> "mgr", tok |-> "first", res |-> "mismatch"]
    /\ "first" \in auth.old
    /\ auth.cur = "second"
    /\ auth.mem["cli"].tokenHash = hash("second")

(* the first half of C28: applying the same write+enable again changes     *)
(* nothing and raises no error                                             *)
C28_EnableIdempotent ==
    enab # Idle =>
        \A k \in 1..Len(enab.hist) : enab.hist[k] = enab.hist[1] /\ ~enab.errs[k]

(* C28: enabling is idempotent (the same write+enable applied twice leaves *)
(* what one application leaves, without error) and replaces a stale link:  *)
(* an enable performed while an entry already exists at the enabled path,  *)
(* even one that does not point at the unit's available copy, leaves a     *)
(* link that points at the unit's available copy.                          *)
C28_EnableReplacesStaleLink ==
    /\ C28_EnableIdempotent
    /\ (enab # Idle /\ enab.hist # <<>> /\ enab.pre.link # "none")
           => enab.hist[1].link = "own"

(* the position a Restore moves to from each stage when the stage passes *)
StageAfter(pc) ==
    CASE pc = "r_verify" -> "r_snapshot"
      [] pc = "r_snapshot" -> "r_stop"
      [] pc = "r_stop" -> "r_extract"
      [] pc = "r_extract" -> "r_apply"
      [] pc = "r_apply" -> "r_validate"
      [] pc = "r_validate" -> "r_start"
      [] OTHER -> "done"

CmdNames(log) == [i \in 1..Len(log) |-> log[i].cmd]

(* the commands of a Restore in which every stage passed *)
ForwardCommands ==
    { <<"tar -tzf", "tar -czf">> \o stop \o
      <<"tar -xzf tmp", "cp -a", "nginx -t", "systemctl start">>
      : stop \in {<<"systemctl stop">>, <<"systemctl stop", "pkill">>} }

(* C29: the stages of a Restore run in the order resolve, verify,          *)
(* snapshot, stop, extract, apply, validate, start: from a stage a Restore *)
(* goes to the next one or returns, so none is skipped or run twice and    *)
(* validate comes after apply and before start; and it reports success     *)
(* only after every stage has run once, nginx -t has passed and the start  *)
(* has succeeded.                                                          *)
C29_RestoreStagesInOrder ==
    /\ [][\A w \in Workers :
            (wk[w].op = "restore" /\ ~Returned(w) /\ wk'[w].pc # wk[w].pc)
            => wk'[w].pc \in {StageAfter(wk[w].pc), "done"}]_vars
    /\ [](\A w \in Workers :
            (Returned(w) /\ wk[w].op = "restore" /\ wk[w].code = 200)
            => /\ CmdNames(wk[w].cmds) \in ForwardCommands
               /\ \A i \in 1..Len(wk[w].cmds) :
                    wk[w].cmds[i].ok \/ wk[w].cmds[i].cmd = "systemctl stop"
               /\ wk[w].rollbacks = 0)

C29_Witness ==
    \E w \in Workers :
        /\ Returned(w) /\ wk[w].op = "restore" /\ wk[w].code = 200
        /\ Len(wk[w].cmds) = 8

Reversed(w) == FailedCommit(w, MutationOps) /\ wk[w].reversed /\ ~wk[w].revErr

(* C30: after a failed commit whose store mutation has been reversed,      *)
(* Reload is invoked exactly once more, whatever the kind of transaction   *)
(* (two invocations in all, each starting with one nginx -t); when that    *)
(* second Reload fails nothing is retried and the answer is the same: 500  *)
(* with rolled_back.                                                       *)
C30_OneReloadAfterReversal ==
    \A w \in Workers :
        Reversed(w) =>
            /\ Cardinality(Positions(wk[w].cmds, "nginx -t")) = 2
            /\ Cardinality(Positions(wk[w].cmds, "systemctl reload")) <= 2
            /\ wk[w].code = 500
            /\ wk[w].rb

(* a reversed delete whose second Reload failed *)
C30_Witness ==
    \E w \in Workers :
        /\ Reversed(w)
        /\ wk[w].op \in DeleteOps
        /\ ~wk[w].cmds[Len(wk[w].cmds)].ok
        /\ Cardinality(Positions(wk[w].cmds, "nginx -t")) = 2

(* the token state the file holds: ZeroState when there is no file *)
Stored(f) == IF f.kind = "json" THEN Unmarshal(f).st ELSE ZeroState

Kinds == {"proxy", "static", "lb", "redirect"}

(* the kind the body's words give *)
InferredKind(content) ==
    IF Contains(content, "proxy_pass") /\ Contains(content, "upstream") THEN "lb"
    ELSE IF Contains(content, "proxy_pass") THEN "proxy"
    ELSE IF Contains(content, "return 301") THEN "redirect"
    ELSE "static"

(* the comment lines that carry a site_type tag *)
TagLines(content) == {i \in 1..Len(content) : content[i].comment /\ content[i].tagged}

FirstTag(content) == content[CHOOSE i \in TagLines(content) : \A j \in TagLines(content) : i <= j].value

KindOfTag(v) == IF v \in {"lb", "proxy", "redirect"} THEN v ELSE "static"

(* C32 as stated: the kind is one of proxy, static, lb, redirect; a        *)
(* site_type tag in a comment line decides it whatever the body contains   *)
(* (a tag other than lb, proxy or redirect gives static); without a tag    *)
(* the body's words decide.                                                *)
C32_TagAlwaysDecides ==
    (site # Idle /\ site.pc = "returned") =>
        /\ site.kind \in Kinds
        /\ TagLines(site.content) # {} => site.kind = KindOfTag(FirstTag(site.content))
        /\ TagLines(site.content) = {} => site.kind = InferredKind(site.content)

(* C32: the kind is one of proxy, static, lb, redirect.  The first comment *)
(* line that contains site_type: decides when its value is not empty (a    *)
(* value other than lb, proxy or redirect gives static); when there is no  *)
(* such line, or the value of the first one is empty, the body's words     *)
(* decide: lb with proxy_pass and upstream, proxy with proxy_pass only,    *)
(* redirect with 'return 301' and no proxy_pass, static otherwise.         *)
C32_NonEmptyTagDecides ==
    (site # Idle /\ site.pc = "returned") =>
        /\ site.kind \in Kinds
        /\ (TagLines(site.content) # {} /\ FirstTag(site.content) # "")
              => site.kind = KindOfTag(FirstTag(site.content))
        /\ (TagLines(site.content) = {} \/ FirstTag(site.content) = "")
              => site.kind = InferredKind(site.content)

(* an empty tag ahead of a proxy body, and a tag that overrides the body *)
C32_Witness ==
    /\ site # Idle
    /\ site.pc = "returned"
    /\ TagLines(site.content) # {}
    /\ FirstTag(site.content) = ""
    /\ Contains(site.content, "proxy_pass")
    /\ site.kind = "proxy"

(* the commands of Restore that stop the service or write to a live tree *)
IntrusiveCommands == {"systemctl stop", "pkill", "cp -a", "tar -xzf /", "systemctl start"}

(* C33: a Restore stops or kills the service and writes to a live tree     *)
(* only after its tar -tzf and its tar -czf have both succeeded: no step   *)
(* of the verification or of the snapshot changes the trees or the         *)
(* service; a Restore whose snapshot could not be created returns a        *)
(* failure after these two commands and with no rollback; and a path at    *)
(* which nothing exists is rejected before any command is run.             *)
C33_NothingBeforeSnapshot ==
    /\ [](\A w \in Workers :
            (wk[w].op = "restore"
             /\ \E i \in 1..Len(wk[w].cmds) : wk[w].cmds[i].cmd \in IntrusiveCommands)
            => (/\ Len(wk[w].cmds) > 2
                /\ wk[w].cmds[1] = Cmd("tar -tzf", TRUE)
                /\ wk[w].cmds[2] = Cmd("tar -czf", TRUE)))
    /\ [][\A w \in Workers :
            (wk[w].op = "restore" /\ wk[w].pc \in {"r_verify", "r_snapshot"} /\ wk'[w] # wk[w])
            => (tree' = tree /\ svc' = svc)]_vars
    /\ [](\A w \in Workers :
            (Returned(w) /\ wk[w].op = "restore") =>
                /\ wk[w].failedAt = "snapshot" =>
                      (/\ wk[w].code = 500
                       /\ wk[w].rollbacks = 0
                       /\ wk[w].cmds = <<Cmd("tar -tzf", TRUE), Cmd("tar -czf", FALSE)>>)
                /\ wk[w].arch = "missing" => (wk[w].code = 500 /\ wk[w].cmds = <<>>))

C33_Witness ==
    \E w \in Workers :
        /\ Returned(w) /\ wk[w].op = "restore"
        /\ wk[w].failedAt = "snapshot"
        /\ wk[w].post2 = tree
        /\ svc.running

RollbackCapable(w) ==
    wk[w].op = "restore" /\ wk[w].pc \in {"r_extract", "r_apply", "r_validate", "r_start"}

(* C35: restoreFromBackup returns an error with the service and the live   *)
(* trees as they were, and no command run, when the snapshot file does not *)
(* exist; otherwise it stops and kills the service, extracts the snapshot  *)
(* over /, and starts the service only if the extraction succeeded; it     *)
(* returns success only if the extraction and the start both succeeded,    *)
(* and a failed extraction leaves the service stopped.                     *)
C35_RollbackRoutine ==
    \A w \in Workers :
        RollbackCapable(w) =>
            \A r \in RestoreFromBackup(tree, SnapFile(wk[w]), svc.running) :
                /\ SnapFile(wk[w]) = NoTree => r.cmds = <<>>
                /\ r.cmds = <<>> => (r.err /\ r.tree = tree /\ r.running = svc.running)
                /\ r.cmds # <<>> =>
                      /\ Len(r.cmds) \in {3, 4}
                      /\ r.cmds[1].cmd = "systemctl stop"
                      /\ r.cmds[2].cmd = "pkill"
                      /\ r.cmds[3].cmd = "tar -xzf /"
                      /\ Len(r.cmds) = 4 <=> r.cmds[3].ok
                      /\ Len(r.cmds) = 4 => r.cmds[4].cmd = "systemctl start"
                      /\ ~r.err <=> (Len(r.cmds) = 4 /\ r.cmds[3].ok /\ r.cmds[4].ok)
                      /\ ~r.cmds[3].ok => ~r.running
                      /\ r.running <=> ~r.err

(* a rollback that found its snapshot file gone *)
C35_Witness ==
    \E w \in Workers :
        /\ Returned(w) /\ wk[w].op = "restore"
        /\ wk[w].snapTaken /\ wk[w].rollbacks = 1 /\ wk[w].rbErr
        /\ Positions(wk[w].cmds, "tar -xzf /") = {}
        /\ faults = 0


(* C37: Validate accepts a token only if a token is set, the current time  *)
(* is not after the stored expiry and the token's hash equals the stored   *)
(* hash; the errors take precedence in the order ErrTokenNotSet,           *)
(* ErrTokenExpired, ErrTokenMismatch, so that after expiry the correct     *)
(* token too is rejected with ErrTokenExpired; Validate never changes the  *)
(* stored hash or expiry on disk.                                          *)
C37_ValidateOrder ==
    [][(auth # Idle /\ auth' # auth /\ auth'.last.op = "Validate")
       => LET t == auth'.last.tok
              res == auth'.last.res
              st == Stored(auth.file)
          IN
          /\ auth'.file = auth.file
          /\ res = "ok" => (/\ st.tokenHash # NoHash
                            /\ ~(auth.now > st.expiresAt)
                            /\ hash(t) = st.tokenHash)
          /\ auth.file.kind # "torn"
                => res = (IF st.tokenHash = NoHash THEN "notset"
                          ELSE IF auth.now > st.expiresAt THEN "expired"
                          ELSE IF hash(t) # st.tokenHash THEN "mismatch"
                          ELSE "ok")]_vars

(* the correct token, refused as expired *)
C37_Witness ==
    /\ auth # Idle
    /\ auth.last.op = "Validate" /\ auth.last.res = "expired"
    /\ auth.last.tok = auth.cur
    /\ auth.now > auth.curExp


(* C38: a create or update request with an unsupported site type fails     *)
(* before the store is touched: the CreateSite step returns an error and   *)
(* leaves the available copy and the activation link (and every other      *)
(* file and the service) as they were, and the handler answers with an     *)
(* error having run neither nginx -t nor a reload.                         *)
C38_UnsupportedTypeTouchesNothing ==
    /\ [][\A w \in Workers :
            (/\ wk[w].pc = "mutate"
             /\ wk[w].op \in {"postSite", "putSite"}
             /\ wk[w].cfgIn = "unsupported"
             /\ wk'[w] # wk[w])
            => (/\ tree' = tree
                /\ svc' = svc
                /\ faults' = faults
                /\ wk'[w].pc = "done"
                /\ wk'[w].code = 500
                /\ ~wk'[w].rb
                /\ wk'[w].cmds = <<>>)]_vars
    /\ [](\A w \in Workers :
            (/\ Returned(w)
             /\ wk[w].op \in {"postSite", "putSite"}
             /\ wk[w].cfgIn = "unsupported")
            => (wk[w].code \in {404, 500} /\ wk[w].cmds = <<>>))

(* an update of an existing, enabled site with an unsupported type:        *)
(* refused, the site as it was                                             *)
C38_Witness ==
    \E w \in Workers :
        /\ Returned(w)
        /\ wk[w].op = "putSite"
        /\ wk[w].cfgIn = "unsupported"
        /\ wk[w].code = 500
        /\ wk[w].pre.body # Absent /\ wk[w].pre.link
        /\ wk[w].post = wk[w].pre


(* an install task executes from the accepted POST to the return of FullInstall *)
Executing(i) == task.inst[i].pc \notin {"none", "done"}

InstallerRuns(i) == task.inst[i].pc \in {"started", "running"}

(* C34: at most one install task executes at any time: between an accepted *)
(* POST /install and the end of that install no further install task and   *)
(* no second installer process is started, and GET /install/logs returns   *)
(* the status of the one running or most recent install.                   *)
C34_OneInstallAtATime ==
    task # Idle =>
        /\ Cardinality({i \in InstallIds : Executing(i)}) <= 1
        /\ Cardinality({i \in InstallIds : InstallerRuns(i)}) <= 1
        /\ \A i \in InstallIds :
              InstallerRuns(i) => task.InstallStatus = i

(* two installer processes at once *)
C34_TwoInstallers ==
    task # Idle /\ \A i \in InstallIds : InstallerRuns(i)


(* the log lines of status i that came from pipe p, in the order logged *)
LoggedFrom(i, p) ==
    SelectSeq(task.status[i].Logs, LAMBDA l : \E k \in 1 .. Len(PipeLines(p)) : PipeLines(p)[k] = l)

ExpectedExitCode(res) == IF res = "ok" THEN 0 ELSE IF res = "exit" THEN ProcessExitCode ELSE -1

(* C36: for ExecuteCommand on a TaskStatus, IsRunning is true only between *)
(* a successful process start and the process exit with both pipes         *)
(* drained; after ExecuteCommand returned from a started process IsRunning *)
(* is false and ExitCode is 0 iff the command succeeded, the process's     *)
(* exit code when it exited non-zero and -1 for any other wait error; a    *)
(* failed start leaves IsRunning and ExitCode as they were; and no line    *)
(* that the stdout and stderr workers added is lost.                       *)
C36_TaskStatusFollowsProcess ==
    /\ [](task # Idle =>
            \A i \in InstallIds :
              LET in == task.inst[i]
                  st == task.status[i]
              IN
              /\ st.IsRunning => in.pc = "running"
              /\ in.res \in WaitResults =>
                    (/\ ~st.IsRunning
                     /\ st.ExitCode = ExpectedExitCode(in.res)
                     /\ st.ExitCode = 0 <=> in.res = "ok")
              /\ \A p \in Pipes :
                    LoggedFrom(i, p) = SubSeq(PipeLines(p), 1, in.pos[p])
              /\ in.res \in WaitResults =>
                    \A p \in Pipes : LoggedFrom(i, p) = PipeLines(p))
    /\ [][task # Idle =>
            \A i \in InstallIds :
              (task.inst[i].pc = "start" /\ task'.inst[i].res = "nostart")
              => (/\ task'.status[i].IsRunning = task.status[i].IsRunning
                  /\ task'.status[i].ExitCode = task.status[i].ExitCode)]_vars

(* both workers have logged, their lines interleaved, and the process      *)
(* exited non-zero                                                         *)
C36_Witness ==
    /\ task # Idle
    /\ \E i \in InstallIds :
         /\ task.inst[i].res = "exit"
         /\ task.status[i].ExitCode = ProcessExitCode
         /\ \E k \in 1 .. Len(task.status[i].Logs) - 2 :
              /\ task.status[i].Logs[k] = "o1"
              /\ task.status[i].Logs[k + 1] = "e1"
              /\ task.status[i].Logs[k + 2] = "o2"


(* C39: in Snapshot the persisted BaselineBytes never exceeds the          *)
(* totalBytes of the call, so UsedBytes = totalBytes - BaselineBytes never *)
(* wraps around as an unsigned subtraction; when the total is below the    *)
(* stored baseline the baseline becomes the total and UsedBytes is 0.      *)
C39_BaselineNeverAboveTotal ==
    [][(usage # Idle /\ usage' # usage /\ usage'.last.op = "Snapshot")
       => LET total == usage'.last.total
          IN
          /\ (usage'.file # usage.file /\ usage'.file.kind = "json")
                => usage'.file.state.BaselineBytes <= total
          /\ ~usage'.last.err =>
                /\ usage'.file.kind = "json"
                /\ usage'.file.state.BaselineBytes <= total
                /\ usage'.last.used = total - usage'.file.state.BaselineBytes
          /\ (/\ ~usage'.last.err
              /\ usage.file.kind = "json"
              /\ total < usage.file.state.BaselineBytes)
                => (usage'.file.state.BaselineBytes = total /\ usage'.last.used = 0)]_vars

(* the counter restarted with no expiry date configured: the baseline     *)
(* follows it down and nothing is reported as used                         *)
C39_Witness ==
    /\ usage # Idle
    /\ usage.last.op = "Snapshot" /\ ~usage.last.err
    /\ usage.last.was > usage.last.total
    /\ usage.last.used = 0
    /\ usage.file.kind = "json"
    /\ usage.file.state.BaselineBytes = usage.last.total
    /\ usage.file.state.ExpiryDate = ""
=============================================================================
